---- MODULE Spec2Model ----
(***************************************************************************)
(* Binary min-heap (src/src/event_simulation/data_structures/heap.c) and   *)
(* the event queue built on it (src/src/event_simulation/event_queue.c).   *)
(*                                                                         *)
(* Pointers are modelled as natural numbers: address 0 is NULL, address k  *)
(* of a kind (node, event, uint_time, payload) is the k-th object of that  *)
(* kind that was allocated.  The objects themselves live in the sequences  *)
(* nodes, events and times, which play the part of the C heap memory.      *)
(***************************************************************************)
EXTENDS Integers, Sequences, FiniteSets, TLC

(***************************************************************************)
(* Program constants.                                                      *)
(***************************************************************************)
DEFAULT_ARR_CAPACITY == 16

NULL == 0

\* Content of a slot of the malloc'ed / realloc'ed array that was never
\* written: an indeterminate value, distinct from every pointer.
UNINIT == -1

\* enum comparator_val
LESS_THAN == "LESS_THAN"
GREATER_THAN == "GREATER_THAN"
EQUAL_TO == "EQUAL_TO"

(***************************************************************************)
(* Bounds of the model.                                                    *)
(***************************************************************************)
\* the heap client owns NumNodes nodes
NumNodes == 7
\* node values are drawn from 1..NumValues
NumValues == 3
\* the queue client keeps at most MaxEvents events in the queue
MaxEvents == 3
\* event times are drawn from 1..NumTimes
NumTimes == 2
\* the client that fills the array holds GrowSpare nodes more than the
\* array has slots at first
GrowSpare == 1
\* the loops of the heap are followed on heaps of 1..MaxLoopSize elements
MaxLoopSize == 12

VARIABLES
    heap,       \* struct binary_heap
    queue,      \* struct event_queue (NoQueue for the plain heap client)
    nodes,      \* memory: the struct node objects of the heap client
    events,     \* memory: the struct event blocks
    times,      \* memory: the struct uint_time blocks
    fault,      \* "none", or the fatal condition that ended the process
    last,       \* the most recent API call and what the caller got from it
    owned,      \* history: elements handed over and not yet handed back
    loaded,     \* history: the elements held right after the last insertion
    outs,       \* history: elements handed back since the last insertion
    sched,      \* history: the time each queued payload was enqueued with
    deqMax,     \* history: the greatest time dequeued so far (0: none yet)
    watch,      \* history: the dequeued times no later enqueue went below
    freed,      \* history: the destructor and free calls the last call made
    got,        \* history: the contexts the callbacks of the last call received
    oom,        \* history: an allocation of the last call failed
    loop,       \* the loop of the heap that is followed one iteration a step
    driver      \* history: the time of the event dequeued last (0: none yet),
                \* and whether no enqueue so far used a time before the one
                \* dequeued last at that point

vars == <<heap, queue, nodes, events, times, fault, last, owned, loaded,
          outs, sched, deqMax, watch, freed, got, oom, loop, driver>>

\* Address of the one struct event_queue.
QUEUE == 1

\* What a call works on: the objects in memory and, in stray, the value a
\* callback finds in a parameter for which its caller supplied no argument.
\* nomem holds the allocations that fail during the call.
Memory(ns, es, ts, q, stray, nomem) ==
    [nodes |-> ns, events |-> es, times |-> ts, queue |-> q, stray |-> stray,
     nomem |-> nomem]

\* The values such a parameter may hold: the address of the queue, or
\* anything else (NULL stands for every value that is not that address).
Indeterminate == {QUEUE, NULL}

\* The outcome of a call that does not return: the process was killed in it.
NO_RETURN == "NO_RETURN"

\* A function pointer that is null.
NULL_FN == "NULL"

(***************************************************************************)
(* Comparators.                                                            *)
(***************************************************************************)
\* heap_test.c: comparator over struct node
comparator(mem, lhs, rhs, arg) ==
    IF mem.nodes[lhs] < mem.nodes[rhs] THEN LESS_THAN
    ELSE IF mem.nodes[lhs] > mem.nodes[rhs] THEN GREATER_THAN
    ELSE EQUAL_TO

\* Mutant of uint_time_comparator: the two outcomes are exchanged.
uint_time_comparator_Reversed(mem, lhs, rhs, arg) ==
    IF mem.times[lhs].time < mem.times[rhs].time THEN GREATER_THAN
    ELSE IF mem.times[lhs].time > mem.times[rhs].time THEN LESS_THAN
    ELSE EQUAL_TO

\* event_queue.c: comparator over struct uint_time
uint_time_comparator(mem, lhs, rhs, arg) ==
    IF mem.times[lhs].time < mem.times[rhs].time THEN LESS_THAN
    ELSE IF mem.times[lhs].time > mem.times[rhs].time THEN GREATER_THAN
    ELSE EQUAL_TO

\* event_queue.c: comparator over struct double_time.  A double is modelled
\* by the number of halves it is made of, so that 1 is 0.5 and 2 is 1.0.
double_time_comparator(mem, lhs, rhs, arg) ==
    IF mem.times[lhs].time < mem.times[rhs].time THEN LESS_THAN
    ELSE IF mem.times[lhs].time > mem.times[rhs].time THEN GREATER_THAN
    ELSE EQUAL_TO

\* queue->time_comparator(l, r, NULL): call through the function pointer
CallTimeComparator(mem, q, lhs, rhs, arg) ==
    CASE q.time_comparator = "uint_time_comparator" ->
            uint_time_comparator(mem, lhs, rhs, arg)
      [] q.time_comparator = "double_time_comparator" ->
            double_time_comparator(mem, lhs, rhs, arg)
      [] q.time_comparator = NULL_FN -> NO_RETURN

\* Mutant of event_comparator: events of EQUAL_TO times compare as the
\* addresses of their payloads do.
event_comparator_ReadsPayload(mem, lhs, rhs, queue_ptr) ==
    IF queue_ptr # QUEUE THEN NO_RETURN
    ELSE LET by_time == CallTimeComparator(mem, mem.queue, mem.events[lhs].time,
                                           mem.events[rhs].time, NULL)
         IN  IF by_time # EQUAL_TO THEN by_time
             ELSE IF mem.events[lhs].data < mem.events[rhs].data THEN LESS_THAN
             ELSE IF mem.events[lhs].data > mem.events[rhs].data THEN GREATER_THAN
             ELSE EQUAL_TO

\* Mutant of event_comparator: the times are compared the other way round.
event_comparator_SwapsSides(mem, lhs, rhs, queue_ptr) ==
    IF queue_ptr # QUEUE THEN NO_RETURN
    ELSE CallTimeComparator(mem, mem.queue, mem.events[rhs].time,
                            mem.events[lhs].time, NULL)

\* event_queue.c: events compare as their times do.  The time comparator is
\* read through queue_ptr: when that is not the address of the queue the read
\* is through a wild pointer and the call does not return.
event_comparator(mem, lhs, rhs, queue_ptr) ==
    IF queue_ptr # QUEUE
    THEN NO_RETURN
    ELSE CallTimeComparator(mem, mem.queue, mem.events[lhs].time,
                            mem.events[rhs].time, NULL)

\* heap->comparator(a, b): call through the function pointer, with two
\* arguments.  The comparator type takes a third, context parameter (heap.h);
\* the callee finds an indeterminate value in it.
CallComparator(h, mem, lhs, rhs) ==
    CASE h.comparator = "comparator" ->
            comparator(mem, lhs, rhs, mem.stray)
      [] h.comparator = "event_comparator" ->
            event_comparator(mem, lhs, rhs, mem.stray)

\* A comparator call made through h does not return.
ComparatorFault(h, mem) ==
    /\ h.comparator = "event_comparator"
    /\ mem.stray # QUEUE \/ mem.queue.time_comparator = NULL_FN

\* The fatal condition that ends such a call: the read through the stray
\* context, or the call through the null time comparator read from the queue.
ComparatorFaultKind(h, mem) ==
    IF mem.stray # QUEUE THEN "wild_dereference" ELSE "null_call"

(***************************************************************************)
(* heap.c                                                                  *)
(***************************************************************************)
\* C integer division truncates toward zero.
CDiv(a, b) == IF a >= 0 THEN a \div b ELSE -((-a) \div b)

\* Mutant of binary_heap_get_parent_index: the slot before index.
binary_heap_get_parent_index_Previous(index) == index - 1

binary_heap_get_parent_index(index) == CDiv(index - 1, 2)

binary_heap_get_left_child_index(index) == 2 * index + 1

binary_heap_get_right_child_index(index) == 2 * index + 2

\* void *temp = elems[i]; elems[i] = elems[j]; elems[j] = temp;
SwapElems(elems, i, j) == [elems EXCEPT ![i] = elems[j], ![j] = elems[i]]

\* No heap: what the caller holds when create_empty_heap did not return.
NoHeap ==
    [ elems          |-> <<>>,
      size           |-> 0,
      capacity       |-> 0,
      comparator     |-> NULL_FN,
      free_elem      |-> NULL_FN,
      comparator_arg |-> NULL,
      free_arg       |-> NULL ]

\* Mutant of CreateFault: the destructor is not checked.
CreateFault_ComparatorOnly(cmp, free_elem) ==
    IF cmp = NULL_FN THEN "assertion_failed" ELSE "none"

\* assert(comparator); assert(free_elem);
CreateFault(cmp, free_elem) ==
    IF cmp = NULL_FN \/ free_elem = NULL_FN THEN "assertion_failed" ELSE "none"

create_empty_heap(cmp, free_elem) ==
    [ elems          |-> [i \in 0 .. DEFAULT_ARR_CAPACITY - 1 |-> UNINIT],
      size           |-> 0,
      capacity       |-> DEFAULT_ARR_CAPACITY,
      comparator     |-> cmp,
      free_elem      |-> free_elem,
      comparator_arg |-> NULL,
      free_arg       |-> NULL ]

\* Declared in heap.h, called by create_generic_event_queue; binds the
\* context value handed to every comparator call.
binary_heap_set_comparator_arg(h, arg) == [h EXCEPT !.comparator_arg = arg]

\* Declared in heap.h, called by create_generic_event_queue; binds the
\* context value handed to every destructor call.
binary_heap_set_free_arg(h, arg) == [h EXCEPT !.free_arg = arg]

\* Mutant of binary_heap_size: the capacity field is returned.
binary_heap_size_Capacity(h) == h.capacity

binary_heap_size(h) == h.size

\* Mutant of BubbleLoop: the element is swapped with a parent it is equal to.
RECURSIVE BubbleLoop_NotStrict(_, _, _)
BubbleLoop_NotStrict(h, mem, elem_index) ==
    LET parent_index == binary_heap_get_parent_index(elem_index) IN
    IF /\ elem_index # 0
       /\ CallComparator(h, mem, h.elems[elem_index], h.elems[parent_index])
              # GREATER_THAN
    THEN BubbleLoop_NotStrict([h EXCEPT !.elems = SwapElems(h.elems, elem_index, parent_index)],
                              mem, parent_index)
    ELSE h

\* The while loop of binary_heap_bubble_last_element, entered with the
\* element at elem_index.
RECURSIVE BubbleLoop(_, _, _)
BubbleLoop(h, mem, elem_index) ==
    LET parent_index == binary_heap_get_parent_index(elem_index) IN
    IF /\ elem_index # 0
       /\ CallComparator(h, mem, h.elems[elem_index], h.elems[parent_index])
              = LESS_THAN
    THEN BubbleLoop([h EXCEPT !.elems = SwapElems(h.elems, elem_index, parent_index)],
                    mem, parent_index)
    ELSE h

binary_heap_bubble_last_element(h, mem) == BubbleLoop(h, mem, h.size - 1)

\* Mutant of GrowArray: the array grows by one slot.
GrowArray_ByOne(h) ==
    [h EXCEPT !.capacity = h.capacity + 1,
              !.elems = [i \in 0 .. h.capacity |->
                            IF i < h.capacity THEN h.elems[i] ELSE UNINIT]]

\* realloc(elems, 2 * capacity): the old slots keep their content, the new
\* ones are indeterminate.
GrowArray(h) ==
    [h EXCEPT !.capacity = 2 * h.capacity,
              !.elems = [i \in 0 .. 2 * h.capacity - 1 |->
                            IF i < h.capacity THEN h.elems[i] ELSE UNINIT]]

\* Mutant of binary_heap_insert: the element is stored one slot further on.
binary_heap_insert_SkipsSlot(h, mem, elem) ==
    LET grown  == IF h.size = h.capacity THEN GrowArray(h) ELSE h
        placed == [grown EXCEPT !.elems[grown.size + 1] = elem,
                                !.size = grown.size + 1]
    IN  binary_heap_bubble_last_element(placed, mem)

\* The array is grown when it is full, and elem is stored behind the last
\* element.
PlaceElem(h, elem) ==
    LET grown == IF h.size = h.capacity THEN GrowArray(h) ELSE h
    IN  [grown EXCEPT !.elems[grown.size] = elem, !.size = grown.size + 1]

binary_heap_insert(h, mem, elem) ==
    binary_heap_bubble_last_element(PlaceElem(h, elem), mem)

\* The fatal condition that ends binary_heap_insert, if any: the array is
\* grown and realloc returns NULL, which is stored in elems and written
\* through; or the comparator, called once there is a parent, does not return.
InsertFault(h, mem) ==
    IF h.size = h.capacity /\ "elems" \in mem.nomem THEN "null_dereference"
    ELSE IF h.size >= 1 /\ ComparatorFault(h, mem) THEN ComparatorFaultKind(h, mem)
    ELSE "none"

\* Mutant of binary_heap_min: the last element is returned, not the root.
binary_heap_min_Last(h) == IF h.size = 0 THEN NULL ELSE h.elems[h.size - 1]

binary_heap_min(h) == IF h.size = 0 THEN NULL ELSE h.elems[0]

\* Mutant of SwapFlags: with one child present, the comparison results are
\* used without regard to which child that is.
SwapFlags_IgnoresPresence(left_present, right_present, left_compare, right_compare, child_compare) ==
    IF left_present /\ right_present
    THEN IF left_compare = GREATER_THAN /\ right_compare = GREATER_THAN
         THEN IF child_compare = LESS_THAN \/ child_compare = EQUAL_TO
              THEN "left" ELSE "right"
         ELSE IF left_compare = GREATER_THAN THEN "left"
         ELSE IF right_compare = GREATER_THAN THEN "right"
         ELSE "none"
    ELSE IF left_compare = GREATER_THAN THEN "left"
    ELSE IF right_compare = GREATER_THAN THEN "right"
    ELSE "none"

\* Mutant of SwapFlags: the element is swapped with a child it is EQUAL_TO as
\* with one it is GREATER_THAN.
SwapFlags_SwapsOnEqual(left_present, right_present, left_compare, right_compare, child_compare) ==
    IF left_present /\ right_present
    THEN IF left_compare # LESS_THAN /\ right_compare # LESS_THAN
         THEN IF child_compare = LESS_THAN \/ child_compare = EQUAL_TO
              THEN "left" ELSE "right"
         ELSE IF left_compare # LESS_THAN THEN "left"
         ELSE IF right_compare # LESS_THAN THEN "right"
         ELSE "none"
    ELSE IF left_present /\ left_compare # LESS_THAN THEN "left"
    ELSE IF right_present /\ right_compare # LESS_THAN THEN "right"
    ELSE "none"

\* Mutant of SwapFlags: with both children smaller than the element and equal
\* to each other, the right one is taken.
SwapFlags_RightOnTie(left_present, right_present, left_compare, right_compare, child_compare) ==
    IF left_present /\ right_present
    THEN IF left_compare = GREATER_THAN /\ right_compare = GREATER_THAN
         THEN IF child_compare = LESS_THAN THEN "left" ELSE "right"
         ELSE IF left_compare = GREATER_THAN THEN "left"
         ELSE IF right_compare = GREATER_THAN THEN "right"
         ELSE "none"
    ELSE IF left_present /\ left_compare = GREATER_THAN THEN "left"
    ELSE IF right_present /\ right_compare = GREATER_THAN THEN "right"
    ELSE "none"

\* The swap flags an iteration of the sift-down loop sets from the outcomes
\* of its comparisons.
SwapFlags(left_present, right_present, left_compare, right_compare, child_compare) ==
    IF left_present /\ right_present
    THEN IF left_compare = GREATER_THAN /\ right_compare = GREATER_THAN
         THEN IF child_compare = LESS_THAN \/ child_compare = EQUAL_TO
              THEN "left" ELSE "right"
         ELSE IF left_compare = GREATER_THAN THEN "left"
         ELSE IF right_compare = GREATER_THAN THEN "right"
         ELSE "none"
    ELSE IF left_present /\ left_compare = GREATER_THAN THEN "left"
    ELSE IF right_present /\ right_compare = GREATER_THAN THEN "right"
    ELSE "none"

\* Mutant of SwapDirection: with both children smaller than the element, the
\* two children are not compared and the left one is taken.
SwapDirection_LeftBiased(h, mem, index) ==
    LET left_index    == binary_heap_get_left_child_index(index)
        right_index   == binary_heap_get_right_child_index(index)
        left_present  == left_index < h.size
        right_present == right_index < h.size
        left_compare  == CallComparator(h, mem, h.elems[index], h.elems[left_index])
        right_compare == CallComparator(h, mem, h.elems[index], h.elems[right_index])
    IN  IF left_present /\ left_compare = GREATER_THAN THEN "left"
        ELSE IF right_present /\ right_compare = GREATER_THAN THEN "right"
        ELSE "none"

\* One iteration of the sift-down loop of binary_heap_pop_min: the direction
\* chosen for the element at index ("left", "right" or "none").
SwapDirection(h, mem, index) ==
    LET left_index    == binary_heap_get_left_child_index(index)
        right_index   == binary_heap_get_right_child_index(index)
        left_present  == left_index < h.size
        right_present == right_index < h.size
        left_compare  == CallComparator(h, mem, h.elems[index], h.elems[left_index])
        right_compare == CallComparator(h, mem, h.elems[index], h.elems[right_index])
        child_compare == CallComparator(h, mem, h.elems[left_index], h.elems[right_index])
    IN  SwapFlags(left_present, right_present, left_compare, right_compare, child_compare)

\* The sift-down while loop of binary_heap_pop_min, entered with the moved
\* element at index.
RECURSIVE SiftDownLoop(_, _, _)
SiftDownLoop(h, mem, index) ==
    LET left_index  == binary_heap_get_left_child_index(index)
        right_index == binary_heap_get_right_child_index(index)
    IN  IF left_index < h.size \/ right_index < h.size
        THEN LET dir == SwapDirection(h, mem, index) IN
             IF dir = "left"
             THEN SiftDownLoop([h EXCEPT !.elems = SwapElems(h.elems, index, left_index)],
                               mem, left_index)
             ELSE IF dir = "right"
             THEN SiftDownLoop([h EXCEPT !.elems = SwapElems(h.elems, index, right_index)],
                               mem, right_index)
             ELSE h
        ELSE h

\* Mutant of MoveLastToRoot: the last element is not copied to the root.
MoveLastToRoot_KeepsRoot(h) ==
    [h EXCEPT !.elems = [h.elems EXCEPT ![h.size - 1] = NULL],
              !.size = h.size - 1]

\* elems[0] = elems[size - 1]; elems[size - 1] = 0; size = size - 1;
MoveLastToRoot(h) ==
    [h EXCEPT !.elems = [[h.elems EXCEPT ![0] = h.elems[h.size - 1]]
                            EXCEPT ![h.size - 1] = NULL],
              !.size = h.size - 1]

\* Mutant of binary_heap_pop_min: the root slot is cleared before the heap
\* is found to be empty.
binary_heap_pop_min_ClearsFirst(h, mem) ==
    LET min_val == binary_heap_min(h) IN
    IF min_val = NULL
    THEN [heap |-> [h EXCEPT !.elems[0] = NULL], ret |-> NULL]
    ELSE [heap |-> SiftDownLoop(MoveLastToRoot(h), mem, 0), ret |-> min_val]

\* The fatal condition that ends binary_heap_pop_min, if any: the comparator,
\* called once the moved element has a child, does not return.
PopMinFault(h, mem) ==
    IF h.size >= 3 /\ ComparatorFault(h, mem) THEN ComparatorFaultKind(h, mem)
    ELSE "none"

\* Returns the heap after the call and the pointer returned.
binary_heap_pop_min(h, mem) ==
    LET min_val == binary_heap_min(h) IN
    IF min_val = NULL
    THEN [heap |-> h, ret |-> NULL]
    ELSE [heap |-> SiftDownLoop(MoveLastToRoot(h), mem, 0), ret |-> min_val]

(***************************************************************************)
(* Destructors and free_heap.  A call of a destructor or of free is        *)
(* recorded as fn(ptr, arg), with the kind of object ptr points to.        *)
(***************************************************************************)
FreeCall(fn, kind, ptr, arg) == [fn |-> fn, kind |-> kind, ptr |-> ptr, arg |-> arg]

\* A block of memory that is not allocated.
FreeEvent == [alloc |-> FALSE, data |-> NULL, time |-> NULL]
FreeTime == [alloc |-> FALSE, time |-> 0]

\* What a destructor gives back: the calls made, the memory after them, and
\* the fatal condition that ended them, if any.
Freed(calls, mem, ended) == [calls |-> calls, mem |-> mem, fault |-> ended]

\* heap_test.c: free(node)
free_node(mem, node, arg) ==
    Freed(<<FreeCall("free_node", "node", node, arg)>>, mem, "none")

\* queue_test_uint.c: free(data_elem)
free_data_elem(mem, data_elem, arg) ==
    Freed(<<FreeCall("free_data_elem", "data", data_elem, arg)>>, mem, "none")

\* event_queue.c: free((uint_time_t) time_ptr)
free_uint_time(mem, time_ptr, arg) ==
    IF ~mem.times[time_ptr].alloc
    THEN Freed(<<>>, mem, "double_free")
    ELSE Freed(<<FreeCall("free_uint_time", "time", time_ptr, arg)>>,
               [mem EXCEPT !.times[time_ptr] = FreeTime], "none")

\* event_queue.c: free((double_time_t) time_ptr)
free_double_time(mem, time_ptr, arg) ==
    IF ~mem.times[time_ptr].alloc
    THEN Freed(<<>>, mem, "double_free")
    ELSE Freed(<<FreeCall("free_double_time", "time", time_ptr, arg)>>,
               [mem EXCEPT !.times[time_ptr] = FreeTime], "none")

\* queue->free_data(event->data, queue->free_data_arg)
CallFreeData(mem, q, data, arg) ==
    CASE q.free_data = "free_data_elem" -> free_data_elem(mem, data, arg)
      [] q.free_data = NULL_FN -> Freed(<<>>, mem, "null_call")

\* queue->free_time(event->time, queue->free_time_arg)
CallFreeTime(mem, q, time, arg) ==
    CASE q.free_time = "free_uint_time" -> free_uint_time(mem, time, arg)
      [] q.free_time = "free_double_time" -> free_double_time(mem, time, arg)
      [] q.free_time = NULL_FN -> Freed(<<>>, mem, "null_call")

\* event_queue.c: the payload, the time and then the event itself are
\* released.  The destructors are read through queue_ptr.
event_free(mem, event_ptr, queue_ptr) ==
    IF queue_ptr # QUEUE THEN Freed(<<>>, mem, "wild_dereference")
    ELSE IF ~mem.events[event_ptr].alloc THEN Freed(<<>>, mem, "use_after_free")
    ELSE LET event == mem.events[event_ptr]
             q     == mem.queue
             d     == CallFreeData(mem, q, event.data, q.free_data_arg)
             t     == CallFreeTime(d.mem, q, event.time, q.free_time_arg)
             self  == FreeCall("event_free", "event", event_ptr, queue_ptr)
         IN  IF d.fault # "none" THEN Freed(<<self>> \o d.calls, d.mem, d.fault)
             ELSE IF t.fault # "none"
             THEN Freed(<<self>> \o d.calls \o t.calls, t.mem, t.fault)
             ELSE Freed(<<self>> \o d.calls \o t.calls
                            \o <<FreeCall("free", "event", event_ptr, NULL)>>,
                        [t.mem EXCEPT !.events[event_ptr] = FreeEvent], "none")

\* heap->free_elem(heap->elems[i]): call through the function pointer, with
\* one argument.  The destructor type takes a second, context parameter
\* (heap.h); the callee finds an indeterminate value in it.
CallFreeElem(h, mem, elem) ==
    CASE h.free_elem = "free_node"  -> free_node(mem, elem, mem.stray)
      [] h.free_elem = "event_free" -> event_free(mem, elem, mem.stray)

\* The for loop of free_heap, entered with index i and the calls made so far.
RECURSIVE FreeLoop(_, _, _, _)
FreeLoop(h, mem, i, calls) ==
    IF i >= h.size THEN Freed(calls, mem, "none")
    ELSE IF h.elems[i] = NULL THEN Freed(calls, mem, "assertion_failed")
    ELSE LET r == CallFreeElem(h, mem, h.elems[i]) IN
         IF r.fault # "none" THEN Freed(calls \o r.calls, r.mem, r.fault)
         ELSE FreeLoop(h, r.mem, i + 1, calls \o r.calls)

\* Mutant of free_heap: the loop starts at index 1.
free_heap_SkipsRoot(h, mem) ==
    LET r == FreeLoop(h, mem, 1, <<>>) IN
    IF r.fault # "none" THEN r
    ELSE Freed(r.calls \o <<FreeCall("free", "elems", 1, NULL),
                            FreeCall("free", "heap", 1, NULL)>>,
               r.mem, "none")

free_heap(h, mem) ==
    LET r == FreeLoop(h, mem, 0, <<>>) IN
    IF r.fault # "none" THEN r
    ELSE Freed(r.calls \o <<FreeCall("free", "elems", 1, NULL),
                            FreeCall("free", "heap", 1, NULL)>>,
               r.mem, "none")

(***************************************************************************)
(* event_queue.c                                                           *)
(***************************************************************************)
NoQueue ==
    [ time_comparator |-> "none", free_data |-> "none", free_time |-> "none",
      free_data_arg |-> NULL, free_time_arg |-> NULL ]

\* The queue structure and its heap, as create_generic_event_queue builds them.
create_generic_event_queue(time_comparator, free_data, free_time, free_data_arg, free_time_arg) ==
    [ queue |-> [ time_comparator |-> time_comparator,
                  free_data       |-> free_data,
                  free_time       |-> free_time,
                  free_data_arg   |-> free_data_arg,
                  free_time_arg   |-> free_time_arg ],
      heap  |-> binary_heap_set_free_arg(
                    binary_heap_set_comparator_arg(
                        create_empty_heap("event_comparator", "event_free"),
                        QUEUE),
                    QUEUE) ]

create_queue_uint_time(free_data, free_data_arg) ==
    create_generic_event_queue("uint_time_comparator", free_data,
                               "free_uint_time", free_data_arg, NULL)

create_queue_double_time(free_data, free_data_arg) ==
    create_generic_event_queue("double_time_comparator", free_data,
                               "free_double_time", free_data_arg, NULL)

event_queue_size(h) == binary_heap_size(h)

\* malloc: the address of a block that is not in use.  Which one is of no
\* consequence to the code; the model takes the lowest.
malloc(blocks) ==
    CHOOSE a \in DOMAIN blocks :
        /\ ~blocks[a].alloc
        /\ \A b \in DOMAIN blocks : ~blocks[b].alloc => a <= b

\* Returns the memory after the call and the pointer returned.  The result
\* of malloc is written through as it is: when it is NULL the process is
\* killed there.
create_uint_time(mem, time_val) ==
    IF "uint_time" \in mem.nomem
    THEN [ mem |-> mem, ret |-> NULL, fault |-> "null_dereference" ]
    ELSE LET time == malloc(mem.times) IN
         [ mem |-> [mem EXCEPT !.times[time] = [alloc |-> TRUE, time |-> time_val]],
           ret |-> time, fault |-> "none" ]

\* Returns the heap and the memory after the call, and the value returned.
\* The result of malloc is written through as it is.
event_queue_enqueue(h, mem, elem, time) ==
    IF time = NULL
    THEN [ heap |-> h, mem |-> mem, ret |-> 0, fault |-> "assertion_failed" ]
    ELSE IF "event" \in mem.nomem
    THEN [ heap |-> h, mem |-> mem, ret |-> 0, fault |-> "null_dereference" ]
    ELSE LET event == malloc(mem.events)
             mem2  == [mem EXCEPT !.events[event] =
                           [alloc |-> TRUE, data |-> elem, time |-> time]]
         IN  IF InsertFault(h, mem2) # "none"
             THEN [ heap |-> h, mem |-> mem2, ret |-> 0,
                    fault |-> InsertFault(h, mem2) ]
             ELSE [ heap |-> binary_heap_insert(h, mem2, event), mem |-> mem2,
                    ret |-> 1, fault |-> "none" ]

event_queue_enqueue_uint_time(h, mem, elem, time_val) ==
    LET t == create_uint_time(mem, time_val) IN
    IF t.fault # "none"
    THEN [ heap |-> h, mem |-> t.mem, ret |-> 0, fault |-> t.fault ]
    ELSE event_queue_enqueue(h, t.mem, elem, t.ret)

\* As create_uint_time, for a double.
create_double_time(mem, time_val) ==
    IF "double_time" \in mem.nomem
    THEN [ mem |-> mem, ret |-> NULL, fault |-> "null_dereference" ]
    ELSE LET time == malloc(mem.times) IN
         [ mem |-> [mem EXCEPT !.times[time] = [alloc |-> TRUE, time |-> time_val]],
           ret |-> time, fault |-> "none" ]

event_queue_enqueue_double_time(h, mem, elem, time_val) ==
    LET t == create_double_time(mem, time_val) IN
    IF t.fault # "none"
    THEN [ heap |-> h, mem |-> t.mem, ret |-> 0, fault |-> t.fault ]
    ELSE event_queue_enqueue(h, t.mem, elem, t.ret)

\* The peek and dequeue functions read event->data without looking at the
\* pointer binary_heap_min / binary_heap_pop_min returned.  When it is NULL
\* the read is of address 0: the process is killed there ("null_dereference")
\* and nothing is stored through the output parameters.
event_queue_peek(h, mem) ==
    LET event == binary_heap_min(h) IN
    IF event = NULL
    THEN [ fault |-> "null_dereference", elem_out |-> NULL, time_out |-> NULL ]
    ELSE IF ~mem.events[event].alloc
    THEN [ fault |-> "use_after_free", elem_out |-> NULL, time_out |-> NULL ]
    ELSE [ fault |-> "none", elem_out |-> mem.events[event].data,
           time_out |-> mem.events[event].time ]

\* Mutant of event_queue_peek_uint_time: the time is read from the event in
\* the last slot of the heap.
event_queue_peek_uint_time_LastSlot(h, mem) ==
    LET event == binary_heap_min(h) IN
    IF event = NULL
    THEN [ fault |-> "null_dereference", elem_out |-> NULL, ret |-> 0 ]
    ELSE [ fault |-> "none", elem_out |-> mem.events[event].data,
           ret |-> mem.times[mem.events[h.elems[h.size - 1]].time].time ]

event_queue_peek_uint_time(h, mem) ==
    LET event == binary_heap_min(h) IN
    IF event = NULL
    THEN [ fault |-> "null_dereference", elem_out |-> NULL, ret |-> 0 ]
    ELSE IF ~mem.events[event].alloc \/ ~mem.times[mem.events[event].time].alloc
    THEN [ fault |-> "use_after_free", elem_out |-> NULL, ret |-> 0 ]
    ELSE [ fault |-> "none", elem_out |-> mem.events[event].data,
           ret |-> mem.times[mem.events[event].time].time ]

\* Mutant of event_queue_peek_double_time: the event in the last slot in use
\* is read, not the one binary_heap_min returns.
event_queue_peek_double_time_LastSlot(h, mem) ==
    LET event == binary_heap_min_Last(h) IN
    IF event = NULL
    THEN [ fault |-> "null_dereference", elem_out |-> NULL, ret |-> 0 ]
    ELSE [ fault |-> "none", elem_out |-> mem.events[event].data,
           ret |-> mem.times[mem.events[event].time].time ]

event_queue_peek_double_time(h, mem) ==
    LET event == binary_heap_min(h) IN
    IF event = NULL
    THEN [ fault |-> "null_dereference", elem_out |-> NULL, ret |-> 0 ]
    ELSE IF ~mem.events[event].alloc \/ ~mem.times[mem.events[event].time].alloc
    THEN [ fault |-> "use_after_free", elem_out |-> NULL, ret |-> 0 ]
    ELSE [ fault |-> "none", elem_out |-> mem.events[event].data,
           ret |-> mem.times[mem.events[event].time].time ]

\* Mutant of event_queue_dequeue: the event is not released.
event_queue_dequeue_KeepsEvent(h, mem) ==
    LET r            == binary_heap_pop_min(h, mem)
        event_popped == r.ret
    IN  IF PopMinFault(h, mem) # "none" \/ event_popped = NULL
        THEN [ heap |-> h, mem |-> mem, fault |-> "null_dereference",
               elem_out |-> NULL, time_out |-> NULL, calls |-> <<>> ]
        ELSE [ heap |-> r.heap, mem |-> mem, fault |-> "none",
               elem_out |-> mem.events[event_popped].data,
               time_out |-> mem.events[event_popped].time,
               calls |-> <<>> ]

\* Returns the heap and the memory after the call, the fatal condition that
\* ended it (if any), what it stored through the output parameters and the
\* free calls it made.
event_queue_dequeue(h, mem) ==
    LET r            == binary_heap_pop_min(h, mem)
        event_popped == r.ret
    IN  IF PopMinFault(h, mem) # "none"
        THEN [ heap |-> h, mem |-> mem, fault |-> PopMinFault(h, mem),
               elem_out |-> NULL, time_out |-> NULL, calls |-> <<>> ]
        ELSE IF event_popped = NULL
        THEN [ heap |-> r.heap, mem |-> mem, fault |-> "null_dereference",
               elem_out |-> NULL, time_out |-> NULL, calls |-> <<>> ]
        ELSE IF ~mem.events[event_popped].alloc
        THEN [ heap |-> r.heap, mem |-> mem, fault |-> "use_after_free",
               elem_out |-> NULL, time_out |-> NULL, calls |-> <<>> ]
        ELSE [ heap |-> r.heap,
               mem |-> [mem EXCEPT !.events[event_popped] = FreeEvent],
               fault |-> "none",
               elem_out |-> mem.events[event_popped].data,
               time_out |-> mem.events[event_popped].time,
               calls |-> <<FreeCall("free", "event", event_popped, NULL)>> ]

event_queue_dequeue_uint_time(h, mem) ==
    LET d == event_queue_dequeue(h, mem) IN
    IF d.fault # "none"
    THEN [ heap |-> d.heap, mem |-> d.mem, fault |-> d.fault,
           elem_out |-> NULL, ret |-> 0, calls |-> d.calls ]
    ELSE IF ~d.mem.times[d.time_out].alloc
    THEN [ heap |-> d.heap, mem |-> d.mem, fault |-> "use_after_free",
           elem_out |-> NULL, ret |-> 0, calls |-> d.calls ]
    ELSE [ heap |-> d.heap,
           mem |-> [d.mem EXCEPT !.times[d.time_out] = FreeTime],
           fault |-> "none",
           elem_out |-> d.elem_out,
           ret |-> d.mem.times[d.time_out].time,
           calls |-> d.calls \o <<FreeCall("free", "time", d.time_out, NULL)>> ]

\* Conversion of a double that is not negative to unsigned int: the
\* fractional part is discarded.
double_to_unsigned(d) == d \div 2

\* Conversion of an unsigned int to double.
unsigned_to_double(u) == 2 * u

\* The time is read into an unsigned int, and that is returned as a double.
event_queue_dequeue_double_time(h, mem) ==
    LET d == event_queue_dequeue(h, mem) IN
    IF d.fault # "none"
    THEN [ heap |-> d.heap, mem |-> d.mem, fault |-> d.fault,
           elem_out |-> NULL, ret |-> 0, calls |-> d.calls ]
    ELSE IF ~d.mem.times[d.time_out].alloc
    THEN [ heap |-> d.heap, mem |-> d.mem, fault |-> "use_after_free",
           elem_out |-> NULL, ret |-> 0, calls |-> d.calls ]
    ELSE LET time_val == double_to_unsigned(d.mem.times[d.time_out].time) IN
         [ heap |-> d.heap,
           mem |-> [d.mem EXCEPT !.times[d.time_out] = FreeTime],
           fault |-> "none",
           elem_out |-> d.elem_out,
           ret |-> unsigned_to_double(time_val),
           calls |-> d.calls \o <<FreeCall("free", "time", d.time_out, NULL)>> ]

\* The heap is torn down; the queue structure itself is left as it is.
free_event_queue(h, mem) == free_heap(h, mem)

(***************************************************************************)
(* The state machine.  A call record holds what the caller observes: the   *)
(* value returned, the values stored through the output parameters, and    *)
(* (key) the node value or time value the caller reads through the pointer *)
(* it was given.                                                           *)
(***************************************************************************)
\* No loop of the heap is being followed.
\* A comparison the iteration did not make.
NOT_COMPARED == "NOT_COMPARED"

\* The results of the comparisons of an iteration: of the element with its
\* parent (sift-up), with its left and its right child and of the children
\* with each other (sift-down).
Compared(parent, left, right, child) ==
    [parent |-> parent, left |-> left, right |-> right, child |-> child]

NoLoop ==
    [fn |-> "none", index |-> 0, swaps |-> 0, n |-> 0, running |-> FALSE,
     cmp |-> Compared(NOT_COMPARED, NOT_COMPARED, NOT_COMPARED, NOT_COMPARED)]

\* Nothing was dequeued and nothing enqueued yet.
NoDriver == [obeyed |-> TRUE, time |-> 0]

Call(op, ret, elem_out, time_out, key) ==
    [op |-> op, ret |-> ret, elem_out |-> elem_out, time_out |-> time_out,
     key |-> key]

NoCall == Call("none", 0, 0, 0, 0)

\* The memory as a callback reads it when it finds stray in a parameter that
\* was not supplied.
Env(stray, nomem) == Memory(nodes, events, times, queue, stray, nomem)

\* The memory as a callback that was handed the queue reads it, with no
\* allocation failing.
Mem == Env(QUEUE, {})

\* read_node(node) of heap_test.c, for a pointer the heap returned
read_node(node) == IF node = NULL THEN 0 ELSE nodes[node]

Max(a, b) == IF a >= b THEN a ELSE b

\* The struct node objects of the heap client, made with make_node before
\* the calls start: node k has address k, and the values of the nodes cycle
\* through 1 .. NumValues.
NodePool == 1 .. NumNodes

make_node(address) == ((address - 1) % NumValues) + 1

\* heap_test.c: create_empty_heap(comparator, free_node)
InitHeap ==
    /\ heap = create_empty_heap("comparator", "free_node")
    /\ queue = NoQueue
    /\ nodes = [a \in NodePool |-> make_node(a)]
    /\ events = <<>>
    /\ times = <<>>
    /\ fault = "none"
    /\ last = NoCall
    /\ owned = {}
    /\ loaded = {}
    /\ outs = <<>>
    /\ sched = <<>>
    /\ deqMax = 0
    /\ watch = {}
    /\ freed = <<>>
    /\ got = {}
    /\ oom = FALSE
    /\ driver = NoDriver
    /\ loop = NoLoop

(***************************************************************************)
(* What every call has in common.                                          *)
(***************************************************************************)
\* Calls are made while the process runs and the structure exists.
Live == fault = "none" /\ last.op \notin {"free_heap", "free_event_queue"}

\* What a call of the queue makes of driver: d, unless the call ended the
\* process or tore the queue down.
Drives(d) == driver' = IF Live' THEN d ELSE NoDriver

\* The structure as its creation left it.
AsCreated ==
    IF queue = NoQueue
    THEN create_empty_heap("comparator", "free_node")
    ELSE create_generic_event_queue(queue.time_comparator, queue.free_data,
                                    queue.free_time, queue.free_data_arg,
                                    queue.free_time_arg).heap

\* The process was killed, or the structure was torn down: nothing it held
\* can be observed any more.  The model keeps one state for that.
Gone ==
    /\ heap' = AsCreated
    /\ events' = [a \in DOMAIN events |-> FreeEvent]
    /\ times' = [a \in DOMAIN times |-> FreeTime]
    /\ owned' = {}
    /\ loaded' = {}
    /\ outs' = <<>>
    /\ sched' = [p \in DOMAIN sched |-> 0]
    /\ deqMax' = 0
    /\ watch' = {}
    /\ UNCHANGED <<queue, nodes>>

\* The call op ended the process with the fatal condition kind.
Killed(op, kind) ==
    /\ fault' = kind
    /\ last' = Call(op, 0, NULL, NULL, 0)
    /\ freed' = <<>>
    /\ Gone

\* The values a callback may find in the parameter its caller left out, in a
\* call that invokes callbacks or does not.  The callbacks of the heap client
\* do not read the parameter: one value stands for all.
Strays(invoked) == IF queue # NoQueue /\ invoked THEN Indeterminate ELSE {QUEUE}

\* What may happen to an enqueue from outside: one of its two allocations
\* (the time wrapper at time_site, the event) fails, or none does and the callback finds a stray value.
EnqueueOutcomes(time_site) ==
    {[stray |-> v, nomem |-> {}] : v \in Strays(heap.size >= 1)}
        \cup {[stray |-> QUEUE, nomem |-> {site}] : site \in {time_site, "event"}}

\* The outcomes of the allocation binary_heap_insert makes: realloc is called,
\* and may fail, only when the array is full.
ReallocOutcomes == IF heap.size = heap.capacity THEN {{}, {"elems"}} ELSE {{}}

\* The contexts the callbacks of the queue received in a call: stray, when
\* the call invoked event_comparator or event_free at all.
Received(invoked, stray) == IF queue # NoQueue /\ invoked THEN {stray} ELSE {}

(***************************************************************************)
(* Heap client (heap_test.c): nodes are inserted, and the heap is queried  *)
(* and popped, in any order, and then freed.  A node is inserted only      *)
(* while the client holds it, that is before its insertion or after it was *)
(* popped.                                                                 *)
(***************************************************************************)
\* binary_heap_insert(heap, node)
HeapInsert(node) ==
    /\ UNCHANGED <<loop, driver>>
    /\ queue = NoQueue
    /\ Live
    /\ node \notin owned
    /\ \E stray \in Strays(heap.size >= 1), nomem \in ReallocOutcomes :
           /\ oom' = (nomem # {})
           /\ IF InsertFault(heap, Env(stray, nomem)) # "none"
              THEN Killed("binary_heap_insert", InsertFault(heap, Env(stray, nomem)))
              ELSE /\ heap' = binary_heap_insert(heap, Env(stray, nomem), node)
                   /\ last' = Call("binary_heap_insert", 1, NULL, NULL, 0)
                   /\ owned' = owned \cup {node}
                   /\ loaded' = owned \cup {node}
                   /\ outs' = <<>>
                   /\ freed' = <<>>
                   /\ UNCHANGED <<queue, nodes, events, times, fault, sched,
                                  deqMax, watch>>
    /\ got' = {}

\* min = binary_heap_min(heap)
HeapMin ==
    /\ UNCHANGED <<loop, driver>>
    /\ queue = NoQueue
    /\ Live
    /\ LET min == binary_heap_min(heap)
       IN  last' = Call("binary_heap_min", min, NULL, NULL, read_node(min))
    /\ got' = {}
    /\ oom' = FALSE
    /\ freed' = <<>>
    /\ UNCHANGED <<heap, queue, nodes, events, times, fault, owned, loaded,
                   outs, sched, deqMax, watch>>

\* min = binary_heap_pop_min(heap)
HeapPopMin ==
    /\ UNCHANGED <<loop, driver>>
    /\ queue = NoQueue
    /\ Live
    /\ \E stray \in Strays(heap.size >= 3) :
       \E r \in {binary_heap_pop_min(heap, Env(stray, {}))} :
           /\ heap' = r.heap
           /\ last' = Call("binary_heap_pop_min", r.ret, NULL, NULL, read_node(r.ret))
           /\ owned' = owned \ {r.ret}
           /\ outs' = IF r.ret = NULL THEN outs ELSE Append(outs, r.ret)
    /\ got' = {}
    /\ oom' = FALSE
    /\ freed' = <<>>
    /\ UNCHANGED <<queue, nodes, events, times, fault, loaded, sched, deqMax,
                   watch>>

\* binary_heap_size(heap)
HeapSize ==
    /\ UNCHANGED <<loop, driver>>
    /\ queue = NoQueue
    /\ Live
    /\ last' = Call("binary_heap_size", binary_heap_size(heap), NULL, NULL, 0)
    /\ got' = {}
    /\ oom' = FALSE
    /\ freed' = <<>>
    /\ UNCHANGED <<heap, queue, nodes, events, times, fault, owned, loaded,
                   outs, sched, deqMax, watch>>

\* What both teardown actions do with the outcome r of free_heap.
TornDown(op, r) ==
    /\ fault' = r.fault
    /\ freed' = IF r.fault = "none" THEN r.calls ELSE <<>>
    /\ last' = Call(op, 0, NULL, NULL, 0)
    /\ oom' = FALSE
    /\ Gone

\* free_heap(heap)
HeapFree ==
    /\ UNCHANGED <<loop, driver>>
    /\ queue = NoQueue
    /\ Live
    /\ \E stray \in Strays(heap.size >= 1) :
           TornDown("free_heap", free_heap(heap, Env(stray, {})))
    /\ got' = {}

(***************************************************************************)
(* Queue client (queue_test_uint.c): a queue with unsigned integer times.  *)
(* Each enqueue brings a payload of its own (create_data_elem); the client *)
(* disposes of a payload, and of a time wrapper event_queue_dequeue hands  *)
(* it, as soon as it has read them.  In the end the queue is freed.        *)
(***************************************************************************)
PayloadPool == 1 .. MaxEvents

\* queue_test_uint.c: create_queue_uint_time(free_data_elem, NULL)
InitQueue ==
    /\ heap = create_queue_uint_time("free_data_elem", NULL).heap
    /\ queue = create_queue_uint_time("free_data_elem", NULL).queue
    /\ nodes = <<>>
    /\ events = [a \in 1 .. MaxEvents |-> FreeEvent]
    /\ times = [a \in 1 .. MaxEvents |-> FreeTime]
    /\ fault = "none"
    /\ last = NoCall
    /\ owned = {}
    /\ loaded = {}
    /\ outs = <<>>
    /\ sched = [p \in PayloadPool |-> 0]
    /\ deqMax = 0
    /\ watch = {}
    /\ freed = <<>>
    /\ got = {}
    /\ oom = FALSE
    /\ driver = NoDriver
    /\ loop = NoLoop

\* create_data_elem: a payload the queue does not hold (the lowest address)
create_data_elem ==
    CHOOSE p \in PayloadPool \ owned : \A q \in PayloadPool \ owned : p <= q

\* elem = create_data_elem(..); event_queue_enqueue_uint_time(queue, elem, time_val)
EnqueueUintTime(time_val) ==
    /\ UNCHANGED loop
    /\ queue # NoQueue
    /\ queue.time_comparator # "double_time_comparator"
    /\ Live
    /\ heap.size < MaxEvents
    /\ \E o \in EnqueueOutcomes("uint_time") :
       \E elem \in {create_data_elem} :
       \E r \in {event_queue_enqueue_uint_time(heap, Env(o.stray, o.nomem), elem, time_val)} :
           /\ oom' = (o.nomem # {})
           /\ got' = Received(o.nomem = {} /\ heap.size >= 1, o.stray)
           /\ IF r.fault # "none"
              THEN Killed("event_queue_enqueue_uint_time", r.fault)
              ELSE /\ heap' = r.heap
                   /\ events' = r.mem.events
                   /\ times' = r.mem.times
                   /\ owned' = owned \cup {elem}
                   /\ loaded' = owned \cup {elem}
                   /\ sched' = [sched EXCEPT ![elem] = time_val]
                   /\ last' = Call("event_queue_enqueue_uint_time", 0, NULL, NULL, 0)
                   /\ outs' = <<>>
                   /\ watch' = {d \in watch : d <= time_val}
                   /\ freed' = <<>>
                   /\ UNCHANGED <<queue, nodes, fault, deqMax>>
    /\ Drives([driver EXCEPT !.obeyed = @ /\ time_val >= driver.time])

\* event_queue_peek(queue, &elem, &time)
Peek ==
    /\ UNCHANGED loop
    /\ queue # NoQueue
    /\ Live
    /\ \E r \in {event_queue_peek(heap, Mem)} :
           IF r.fault # "none"
           THEN Killed("event_queue_peek", r.fault)
           ELSE /\ last' = Call("event_queue_peek", 0, r.elem_out, r.time_out,
                                times[r.time_out].time)
                /\ freed' = <<>>
                /\ UNCHANGED <<heap, queue, nodes, events, times, fault, owned,
                               loaded, outs, sched, deqMax, watch>>
    /\ got' = {}
    /\ oom' = FALSE
    /\ Drives(driver)

\* time = event_queue_peek_uint_time(queue, &elem)
PeekUintTime ==
    /\ UNCHANGED loop
    /\ queue.time_comparator = "uint_time_comparator"
    /\ Live
    /\ \E r \in {event_queue_peek_uint_time(heap, Mem)} :
           IF r.fault # "none"
           THEN Killed("event_queue_peek_uint_time", r.fault)
           ELSE /\ last' = Call("event_queue_peek_uint_time", r.ret, r.elem_out,
                                NULL, r.ret)
                /\ freed' = <<>>
                /\ UNCHANGED <<heap, queue, nodes, events, times, fault, owned,
                               loaded, outs, sched, deqMax, watch>>
    /\ got' = {}
    /\ oom' = FALSE
    /\ Drives(driver)

\* What both dequeue actions record of a dequeue that returned payload elem
\* with time value key.
Dequeued(elem, key) ==
    /\ owned' = owned \ {elem}
    /\ outs' = Append(outs, elem)
    /\ sched' = [sched EXCEPT ![elem] = 0]
    /\ deqMax' = Max(deqMax, key)
    /\ watch' = watch \cup {key}
    /\ UNCHANGED <<queue, nodes, fault, loaded>>

\* event_queue_dequeue(queue, &elem, &time); the client reads *time and
\* frees it.
Dequeue ==
    /\ UNCHANGED loop
    /\ queue # NoQueue
    /\ Live
    /\ \E stray \in Strays(heap.size >= 3) :
       \E r \in {event_queue_dequeue(heap, Env(stray, {}))} :
           /\ got' = Received(heap.size >= 3, stray)
           /\ IF r.fault # "none"
              THEN Killed("event_queue_dequeue", r.fault)
              ELSE /\ heap' = r.heap
                   /\ events' = r.mem.events
                   /\ last' = Call("event_queue_dequeue", 0, r.elem_out, r.time_out,
                                   times[r.time_out].time)
                   /\ times' = [times EXCEPT ![r.time_out] = FreeTime]
                   /\ freed' = r.calls
                   /\ Dequeued(r.elem_out, times[r.time_out].time)
    /\ oom' = FALSE
    /\ Drives([driver EXCEPT !.time = sched[last'.elem_out]])

\* time = event_queue_dequeue_uint_time(queue, &elem)
DequeueUintTime ==
    /\ UNCHANGED loop
    /\ queue.time_comparator = "uint_time_comparator"
    /\ Live
    /\ \E stray \in Strays(heap.size >= 3) :
       \E r \in {event_queue_dequeue_uint_time(heap, Env(stray, {}))} :
           /\ got' = Received(heap.size >= 3, stray)
           /\ IF r.fault # "none"
              THEN Killed("event_queue_dequeue_uint_time", r.fault)
              ELSE /\ heap' = r.heap
                   /\ events' = r.mem.events
                   /\ times' = r.mem.times
                   /\ last' = Call("event_queue_dequeue_uint_time", r.ret,
                                   r.elem_out, NULL, r.ret)
                   /\ freed' = r.calls
                   /\ Dequeued(r.elem_out, r.ret)
    /\ oom' = FALSE
    /\ Drives([driver EXCEPT !.time = sched[last'.elem_out]])

(***************************************************************************)
(* Queue client with double times: as the client above, with the calls     *)
(* event_queue.h has for a queue made by create_queue_double_time.         *)
(***************************************************************************)
\* The times this client enqueues: 1.0 and 1.5, in halves.
DoubleTimes == {2, 3}

\* create_queue_double_time(free_data_elem, NULL)
InitQueueDouble ==
    /\ heap = create_queue_double_time("free_data_elem", NULL).heap
    /\ queue = create_queue_double_time("free_data_elem", NULL).queue
    /\ nodes = <<>>
    /\ events = [a \in 1 .. MaxEvents |-> FreeEvent]
    /\ times = [a \in 1 .. MaxEvents |-> FreeTime]
    /\ fault = "none"
    /\ last = NoCall
    /\ owned = {}
    /\ loaded = {}
    /\ outs = <<>>
    /\ sched = [p \in PayloadPool |-> 0]
    /\ deqMax = 0
    /\ watch = {}
    /\ freed = <<>>
    /\ got = {}
    /\ oom = FALSE
    /\ driver = NoDriver
    /\ loop = NoLoop

\* elem = create_data_elem(..); event_queue_enqueue_double_time(queue, elem, time_val)
EnqueueDoubleTime(time_val) ==
    /\ UNCHANGED loop
    /\ queue.time_comparator = "double_time_comparator"
    /\ Live
    /\ heap.size < MaxEvents
    /\ \E o \in EnqueueOutcomes("double_time") :
       \E elem \in {create_data_elem} :
       \E r \in {event_queue_enqueue_double_time(heap, Env(o.stray, o.nomem), elem, time_val)} :
           /\ oom' = (o.nomem # {})
           /\ got' = Received(o.nomem = {} /\ heap.size >= 1, o.stray)
           /\ IF r.fault # "none"
              THEN Killed("event_queue_enqueue_double_time", r.fault)
              ELSE /\ heap' = r.heap
                   /\ events' = r.mem.events
                   /\ times' = r.mem.times
                   /\ owned' = owned \cup {elem}
                   /\ loaded' = owned \cup {elem}
                   /\ sched' = [sched EXCEPT ![elem] = time_val]
                   /\ last' = Call("event_queue_enqueue_double_time", 0, NULL, NULL, 0)
                   /\ outs' = <<>>
                   /\ watch' = {d \in watch : d <= time_val}
                   /\ freed' = <<>>
                   /\ UNCHANGED <<queue, nodes, fault, deqMax>>
    /\ Drives([driver EXCEPT !.obeyed = @ /\ time_val >= driver.time])

\* time = event_queue_peek_double_time(queue, &elem)
PeekDoubleTime ==
    /\ UNCHANGED loop
    /\ queue.time_comparator = "double_time_comparator"
    /\ Live
    /\ \E r \in {event_queue_peek_double_time(heap, Mem)} :
           IF r.fault # "none"
           THEN Killed("event_queue_peek_double_time", r.fault)
           ELSE /\ last' = Call("event_queue_peek_double_time", r.ret, r.elem_out,
                                NULL, r.ret)
                /\ freed' = <<>>
                /\ UNCHANGED <<heap, queue, nodes, events, times, fault, owned,
                               loaded, outs, sched, deqMax, watch>>
    /\ got' = {}
    /\ oom' = FALSE
    /\ Drives(driver)

\* time = event_queue_dequeue_double_time(queue, &elem)
DequeueDoubleTime ==
    /\ UNCHANGED loop
    /\ queue.time_comparator = "double_time_comparator"
    /\ Live
    /\ \E stray \in Strays(heap.size >= 3) :
       \E r \in {event_queue_dequeue_double_time(heap, Env(stray, {}))} :
           /\ got' = Received(heap.size >= 3, stray)
           /\ IF r.fault # "none"
              THEN Killed("event_queue_dequeue_double_time", r.fault)
              ELSE /\ heap' = r.heap
                   /\ events' = r.mem.events
                   /\ times' = r.mem.times
                   /\ last' = Call("event_queue_dequeue_double_time", r.ret,
                                   r.elem_out, NULL, r.ret)
                   /\ freed' = r.calls
                   /\ Dequeued(r.elem_out, r.ret)
    /\ oom' = FALSE
    /\ Drives([driver EXCEPT !.time = sched[last'.elem_out]])

\* event_queue_size(queue)
QueueSize ==
    /\ UNCHANGED loop
    /\ queue # NoQueue
    /\ Live
    /\ last' = Call("event_queue_size", event_queue_size(heap), NULL, NULL, 0)
    /\ got' = {}
    /\ oom' = FALSE
    /\ freed' = <<>>
    /\ UNCHANGED <<heap, queue, nodes, events, times, fault, owned, loaded,
                   outs, sched, deqMax, watch>>
    /\ Drives(driver)

\* free_event_queue(queue)
QueueFree ==
    /\ UNCHANGED loop
    /\ queue # NoQueue
    /\ Live
    /\ \E stray \in Strays(heap.size >= 1) :
           /\ TornDown("free_event_queue", free_event_queue(heap, Env(stray, {})))
           /\ got' = Received(heap.size >= 1, stray)
    /\ Drives(driver)

(***************************************************************************)
(* A client that hands create_empty_heap a null comparator or a null       *)
(* destructor.                                                             *)
(***************************************************************************)
\* heap = create_empty_heap(cmp, free_elem), one of the two null
InitNullCallback ==
    \E cmp \in {"comparator", NULL_FN}, free_elem \in {"free_node", NULL_FN} :
        /\ cmp = NULL_FN \/ free_elem = NULL_FN
        /\ fault = CreateFault(cmp, free_elem)
        /\ heap = IF CreateFault(cmp, free_elem) = "none"
                  THEN create_empty_heap(cmp, free_elem)
                  ELSE NoHeap
        /\ queue = NoQueue
        /\ nodes = [a \in NodePool |-> make_node(a)]
        /\ events = <<>>
        /\ times = <<>>
        /\ last = Call("create_empty_heap", 0, NULL, NULL, 0)
        /\ owned = {}
        /\ loaded = {}
        /\ outs = <<>>
        /\ sched = <<>>
        /\ deqMax = 0
        /\ watch = {}
        /\ freed = <<>>
        /\ got = {}
        /\ oom = FALSE
        /\ driver = NoDriver
        /\ loop = NoLoop

(***************************************************************************)
(* The two loops of heap.c followed one iteration a step, on a heap of any *)
(* size up to MaxLoopSize, with every comparison free to give any of the   *)
(* three outcomes: what a loop does then depends on the indices alone.     *)
(***************************************************************************)
Outcomes == {LESS_THAN, GREATER_THAN, EQUAL_TO}

\* A heap of n elements; the element in slot i is called i + 1.
LoopHeap(n) ==
    [create_empty_heap("comparator", "free_node") EXCEPT
        !.size = n,
        !.elems = [i \in 0 .. DEFAULT_ARR_CAPACITY - 1 |->
                       IF i < n THEN i + 1 ELSE UNINIT]]

\* The functions followed step by step.
LoopFunctions ==
    {"binary_heap_insert", "binary_heap_bubble_last_element",
     "binary_heap_pop_min", "free_heap"}

\* The sizes a function is entered with.  binary_heap_insert is entered
\* with an array that has room or is full; free_heap also with no element.
LoopSizes(fn) ==
    IF fn = "binary_heap_insert"
    THEN (0 .. MaxLoopSize - 1) \cup {DEFAULT_ARR_CAPACITY}
    ELSE IF fn = "free_heap" THEN 0 .. MaxLoopSize
    ELSE 1 .. MaxLoopSize

\* binary_heap_bubble_last_element is entered after binary_heap_insert has
\* stored the element, the loop of binary_heap_pop_min after the last element
\* has been moved to the root: n is heap->size at that point.  For
\* binary_heap_insert n is the size the bubbling starts with, one more than
\* the size at entry, and index the slot the element is stored in.
InitLoops ==
    \E fn \in LoopFunctions :
    \E size \in LoopSizes(fn) :
        /\ heap = LoopHeap(size)
        /\ loop = [fn |-> fn,
                   index |-> CASE fn = "binary_heap_bubble_last_element" -> size - 1
                               [] fn = "binary_heap_insert" -> size
                               [] OTHER -> 0,
                   swaps |-> 0,
                   n |-> IF fn = "binary_heap_insert" THEN size + 1 ELSE size,
                   running |-> TRUE, cmp |-> NoLoop.cmp]
        /\ queue = NoQueue
        /\ nodes = <<>>
        /\ events = <<>>
        /\ times = <<>>
        /\ fault = "none"
        /\ last = NoCall
        /\ owned = {}
        /\ loaded = {}
        /\ outs = <<>>
        /\ sched = <<>>
        /\ deqMax = 0
        /\ watch = {}
        /\ freed = <<>>
        /\ got = {}
        /\ oom = FALSE
        /\ driver = NoDriver

\* binary_heap_insert up to the call of binary_heap_bubble_last_element: the
\* array is grown when it is full and the element, called size + 1, is
\* stored.  When realloc fails the store goes through a null pointer.
InsertStore ==
    /\ loop.running
    /\ loop.fn = "binary_heap_insert"
    /\ \E nomem \in ReallocOutcomes :
           IF "elems" \in nomem
           THEN /\ fault' = "null_dereference"
                /\ heap' = heap
                /\ loop' = [loop EXCEPT !.running = FALSE]
           ELSE /\ fault' = fault
                /\ heap' = PlaceElem(heap, heap.size + 1)
                /\ loop' = [loop EXCEPT !.fn = "binary_heap_bubble_last_element"]
    /\ UNCHANGED <<queue, nodes, events, times, last, owned, loaded,
                   outs, sched, deqMax, watch, freed, got, oom, driver>>

\* One test of the for condition of free_heap and, when it holds, one run of
\* its body; when it does not, the array and the heap are released.
FreeIteration ==
    /\ loop.running
    /\ loop.fn = "free_heap"
    /\ IF loop.index < heap.size
       THEN IF heap.elems[loop.index] = NULL
            THEN /\ fault' = "assertion_failed"
                 /\ freed' = freed
                 /\ loop' = [loop EXCEPT !.running = FALSE]
            ELSE /\ fault' = fault
                 /\ freed' = freed \o CallFreeElem(heap, Mem, heap.elems[loop.index]).calls
                 /\ loop' = [loop EXCEPT !.index = @ + 1]
       ELSE /\ fault' = fault
            /\ freed' = freed \o <<FreeCall("free", "elems", 1, NULL),
                                    FreeCall("free", "heap", 1, NULL)>>
            /\ loop' = [loop EXCEPT !.running = FALSE]
    /\ UNCHANGED <<heap, queue, nodes, events, times, last, owned, loaded,
                   outs, sched, deqMax, watch, got, oom, driver>>

\* The swap an iteration makes and the index it goes on from.
LoopSwap(to, cmp) ==
    /\ heap' = [heap EXCEPT !.elems = SwapElems(heap.elems, loop.index, to)]
    /\ loop' = [loop EXCEPT !.index = to, !.swaps = @ + 1, !.cmp = cmp]

\* The loop is left.
LoopExit(cmp) ==
    /\ heap' = heap
    /\ loop' = [loop EXCEPT !.running = FALSE, !.cmp = cmp]

\* One test of the while condition of binary_heap_bubble_last_element and,
\* when it holds, one run of its body.
BubbleIteration ==
    /\ loop.running
    /\ loop.fn = "binary_heap_bubble_last_element"
    /\ IF loop.index # 0
       THEN \E outcome \in Outcomes :
            \E cmp \in {Compared(outcome, NOT_COMPARED, NOT_COMPARED, NOT_COMPARED)} :
                IF outcome = LESS_THAN
                THEN LoopSwap(binary_heap_get_parent_index(loop.index), cmp)
                ELSE LoopExit(cmp)
       ELSE LoopExit(NoLoop.cmp)
    /\ UNCHANGED <<queue, nodes, events, times, fault, last, owned, loaded,
                   outs, sched, deqMax, watch, freed, got, oom, driver>>

\* One test of the while condition of binary_heap_pop_min and, when it
\* holds, one run of its body; with no swap smaller_than_children is cleared
\* and the next test leaves the loop.
SiftDownIteration ==
    /\ loop.running
    /\ loop.fn = "binary_heap_pop_min"
    /\ LET left_index    == binary_heap_get_left_child_index(loop.index)
           right_index   == binary_heap_get_right_child_index(loop.index)
           left_present  == left_index < heap.size
           right_present == right_index < heap.size
       IN  IF left_index < heap.size \/ right_index < heap.size
           THEN \E left_compare \in Outcomes, right_compare \in Outcomes, child_compare \in Outcomes :
                \E dir \in {SwapFlags(left_present, right_present,
                                      left_compare, right_compare, child_compare)} :
                \E cmp \in {Compared(NOT_COMPARED,
                                     IF left_present THEN left_compare ELSE NOT_COMPARED,
                                     IF right_present THEN right_compare ELSE NOT_COMPARED,
                                     IF /\ left_present /\ right_present
                                        /\ left_compare = GREATER_THAN
                                        /\ right_compare = GREATER_THAN
                                     THEN child_compare ELSE NOT_COMPARED)} :
                    IF dir = "left" THEN LoopSwap(left_index, cmp)
                    ELSE IF dir = "right" THEN LoopSwap(right_index, cmp)
                    ELSE LoopExit(cmp)
           ELSE LoopExit(NoLoop.cmp)
    /\ UNCHANGED <<queue, nodes, events, times, fault, last, owned, loaded,
                   outs, sched, deqMax, watch, freed, got, oom, driver>>

NextLoops == InsertStore \/ BubbleIteration \/ SiftDownIteration \/ FreeIteration

\* A loop that can make an iteration makes it: the process keeps running.
SpecLoops == InitLoops /\ [][NextLoops]_vars /\ WF_vars(NextLoops)

(***************************************************************************)
(* Heap client that fills the array: it has inserted all but one of the    *)
(* nodes the array has room for, in the order of their values, and goes on *)
(* inserting, querying and popping without letting the heap get smaller    *)
(* than that.                                                              *)
(***************************************************************************)
GrowPool == 1 .. DEFAULT_ARR_CAPACITY + GrowSpare

\* The number of nodes inserted before the calls that are followed.
Prefilled == DEFAULT_ARR_CAPACITY - 1

\* The k-th of the first Prefilled nodes in the order of their values, nodes
\* of one value in the order of their addresses.
NodeOfRank(k) ==
    CHOOSE a \in 1 .. Prefilled :
        Cardinality({b \in 1 .. Prefilled :
                        \/ make_node(b) < make_node(a)
                        \/ make_node(b) = make_node(a) /\ b < a}) = k

\* The heap after binary_heap_insert of these nodes in that order: no insert
\* has swapped.
InitGrow ==
    /\ heap = [create_empty_heap("comparator", "free_node") EXCEPT
                  !.size = Prefilled,
                  !.elems = [i \in 0 .. DEFAULT_ARR_CAPACITY - 1 |->
                                 IF i < Prefilled THEN NodeOfRank(i) ELSE UNINIT]]
    /\ queue = NoQueue
    /\ nodes = [a \in GrowPool |-> make_node(a)]
    /\ events = <<>>
    /\ times = <<>>
    /\ fault = "none"
    /\ last = Call("binary_heap_insert", 1, NULL, NULL, 0)
    /\ owned = 1 .. Prefilled
    /\ loaded = 1 .. Prefilled
    /\ outs = <<>>
    /\ sched = <<>>
    /\ deqMax = 0
    /\ watch = {}
    /\ freed = <<>>
    /\ got = {}
    /\ oom = FALSE
    /\ driver = NoDriver
    /\ loop = NoLoop

GrowInsert(node) == HeapInsert(node)

GrowMin == HeapMin

GrowPopMin == heap.size > Prefilled /\ HeapPopMin

GrowSize == HeapSize

GrowFree == HeapFree

NextGrow ==
    \/ \E node \in GrowPool : GrowInsert(node)
    \/ GrowMin
    \/ GrowPopMin
    \/ GrowSize
    \/ GrowFree

SpecGrow == InitGrow /\ [][NextGrow]_vars

(***************************************************************************)
(* Heap client that also inserts the null handle.  binary_heap_insert      *)
(* stores it like any other; the comparator of the client reads through    *)
(* both its arguments, so that a comparison with the null handle ends the  *)
(* process.                                                                *)
(***************************************************************************)
\* binary_heap_insert(heap, NULL)
HeapInsertNull ==
    /\ UNCHANGED <<loop, driver>>
    /\ queue = NoQueue
    /\ Live
    /\ IF heap.size >= 1
       THEN Killed("binary_heap_insert", "null_dereference")
       ELSE /\ heap' = binary_heap_insert(heap, Mem, NULL)
            /\ last' = Call("binary_heap_insert", 1, NULL, NULL, 0)
            /\ owned' = owned \cup {NULL}
            /\ loaded' = owned \cup {NULL}
            /\ outs' = <<>>
            /\ freed' = <<>>
            /\ UNCHANGED <<queue, nodes, events, times, fault, sched, deqMax, watch>>
    /\ got' = {}
    /\ oom' = FALSE

\* binary_heap_insert(heap, node): the null handle, when the heap holds it,
\* is at the root and is compared with node.
NullInsert(node) ==
    IF heap.size >= 1 /\ heap.elems[0] = NULL
    THEN /\ UNCHANGED <<loop, driver>>
         /\ queue = NoQueue
         /\ Live
         /\ node \notin owned
         /\ Killed("binary_heap_insert", "null_dereference")
         /\ got' = {}
         /\ oom' = FALSE
    ELSE HeapInsert(node)

NullMin == HeapMin

NullPopMin == HeapPopMin

NullSize == HeapSize

NullFree == HeapFree

NextNull ==
    \/ HeapInsertNull
    \/ \E node \in NodePool : NullInsert(node)
    \/ NullMin
    \/ NullPopMin
    \/ NullSize
    \/ NullFree

SpecNull == InitHeap /\ [][NextNull]_vars

(***************************************************************************)
(* Queue client that enqueues first and dequeues afterwards: no payload    *)
(* address is used twice, so that the payloads are numbered in the order   *)
(* they were enqueued in.                                                  *)
(***************************************************************************)
BatchEnqueue(time_val) == watch = {} /\ EnqueueUintTime(time_val)

BatchPeek == PeekUintTime

BatchDequeue == DequeueUintTime

BatchSize == QueueSize

NextBatch ==
    \/ \E time_val \in 1 .. NumTimes : BatchEnqueue(time_val)
    \/ BatchPeek
    \/ BatchDequeue
    \/ BatchSize

SpecBatch == InitQueue /\ [][NextBatch]_vars

(***************************************************************************)
(* Queue client that creates its queue with create_generic_event_queue     *)
(* and passes a null pointer for one callback or more.                     *)
(***************************************************************************)
\* create_generic_event_queue(time_comparator, free_data, free_time, NULL, NULL)
InitGenericNull ==
    \E time_comparator \in {"uint_time_comparator", NULL_FN},
       free_data \in {"free_data_elem", NULL_FN},
       free_time \in {"free_uint_time", NULL_FN} :
        /\ NULL_FN \in {time_comparator, free_data, free_time}
        /\ heap = create_generic_event_queue(time_comparator, free_data,
                                             free_time, NULL, NULL).heap
        /\ queue = create_generic_event_queue(time_comparator, free_data,
                                              free_time, NULL, NULL).queue
        /\ nodes = <<>>
        /\ events = [a \in 1 .. MaxEvents |-> FreeEvent]
        /\ times = [a \in 1 .. MaxEvents |-> FreeTime]
        /\ fault = "none"
        /\ last = Call("create_generic_event_queue", 0, NULL, NULL, 0)
        /\ owned = {}
        /\ loaded = {}
        /\ outs = <<>>
        /\ sched = [p \in PayloadPool |-> 0]
        /\ deqMax = 0
        /\ watch = {}
        /\ freed = <<>>
        /\ got = {}
        /\ oom = FALSE
        /\ driver = NoDriver
        /\ loop = NoLoop

GenericEnqueue(time_val) == EnqueueUintTime(time_val)

GenericPeek == Peek

GenericDequeue == Dequeue

GenericSize == QueueSize

GenericFree == QueueFree

NextGenericNull ==
    \/ \E time_val \in 1 .. NumTimes : GenericEnqueue(time_val)
    \/ GenericPeek
    \/ GenericDequeue
    \/ GenericSize
    \/ GenericFree

SpecGenericNull == InitGenericNull /\ [][NextGenericNull]_vars

(***************************************************************************)
(* The program is one of the clients; every call is one step.              *)
(***************************************************************************)
Init == InitHeap \/ InitQueue \/ InitQueueDouble \/ InitNullCallback

Next ==
    \/ \E node \in NodePool : HeapInsert(node)
    \/ HeapMin
    \/ HeapPopMin
    \/ HeapSize
    \/ \E time_val \in 1 .. NumTimes : EnqueueUintTime(time_val)
    \/ Peek
    \/ PeekUintTime
    \/ Dequeue
    \/ DequeueUintTime
    \/ QueueSize
    \/ HeapFree
    \/ QueueFree
    \/ \E time_val \in DoubleTimes : EnqueueDoubleTime(time_val)
    \/ PeekDoubleTime
    \/ DequeueDoubleTime

Spec == Init /\ [][Next]_vars

(***************************************************************************)
(* Notions the properties are stated with.                                 *)
(***************************************************************************)
\* The occupied indices of the array.
Slots == 0 .. heap.size - 1

\* The key an element is ordered by: the value of a node, the time of an event.
KeyOf(elem) ==
    IF queue = NoQueue THEN nodes[elem] ELSE times[events[elem].time].time

\* The key of what the client handed over: a node, or a payload.
KeyOfOwned(x) == IF queue = NoQueue THEN nodes[x] ELSE sched[x]

Min(S) == CHOOSE x \in S : \A y \in S : x <= y

\* The keys of the elements of S in non-decreasing order.
RECURSIVE SortedKeys(_, _)
SortedKeys(S, key) ==
    IF S = {} THEN <<>>
    ELSE LET least == Min({key[x] : x \in S})
             x     == CHOOSE y \in S : key[y] = least
         IN  <<least>> \o SortedKeys(S \ {x}, key)

\* The calls that take an element out of the heap.
PopOps == {"binary_heap_pop_min", "event_queue_dequeue",
           "event_queue_dequeue_uint_time"}

(***************************************************************************)
(* C1  Heap property: in every reachable state, for every index i with     *)
(* 0 < i < size the comparator applied to the element at the parent index  *)
(* floor((i - 1) / 2) and the element at i does not give GREATER_THAN.     *)
(***************************************************************************)
C1_HeapProperty ==
    \A i \in Slots :
        i # 0 => CallComparator(heap, Mem, heap.elems[(i - 1) \div 2], heap.elems[i])
                     # GREATER_THAN

\* After a pop that left four elements, with three distinct keys in the top
\* three slots: the root is below the right child, which is below the left.
C1_Witness ==
    /\ last.op = "binary_heap_pop_min"
    /\ heap.size = 4
    /\ KeyOf(heap.elems[0]) < KeyOf(heap.elems[2])
    /\ KeyOf(heap.elems[2]) < KeyOf(heap.elems[1])

(***************************************************************************)
(* C2  Sortedness: the elements popped since the last insertion come out   *)
(* in the order sorting gives: their keys are the first keys of the        *)
(* non-decreasing arrangement of the keys the heap held after that         *)
(* insertion; once the heap is empty they are that arrangement.            *)
(***************************************************************************)
C2_Sortedness ==
    queue = NoQueue =>
        /\ Len(outs) <= Cardinality(loaded)
        /\ [i \in 1 .. Len(outs) |-> nodes[outs[i]]]
               = SubSeq(SortedKeys(loaded, nodes), 1, Len(outs))
        /\ heap.size = 0 => Len(outs) = Cardinality(loaded)

\* All the nodes were inserted and popped again, giving three distinct values.
C2_Witness ==
    /\ queue = NoQueue
    /\ heap.size = 0
    /\ Len(outs) = NumNodes
    /\ nodes[outs[1]] < nodes[outs[NumNodes]]

(***************************************************************************)
(* C3  Ordering of dequeues.  As claimed: no dequeue returns a time below  *)
(* the time an earlier dequeue returned, whatever was enqueued in between. *)
(***************************************************************************)
DequeueOps == {"event_queue_dequeue", "event_queue_dequeue_uint_time"}

\* The step is a dequeue that returned an event.
DequeueStep == last'.op \in DequeueOps /\ fault' = "none"

C3_DequeueOrder_AsClaimed == [][DequeueStep => last'.key >= deqMax]_vars

(***************************************************************************)
(* C3, amended: no dequeue returns a time below the time d an earlier      *)
(* dequeue returned, unless an event with a time below d was enqueued      *)
(* after that earlier dequeue.                                             *)
(***************************************************************************)
C3_DequeueOrder == [][DequeueStep => \A d \in watch : last'.key >= d]_vars

\* Two dequeues in a row returned a time that is still watched, after an
\* earlier dequeue had returned a greater time.
C3_Witness ==
    /\ last.op \in DequeueOps
    /\ fault = "none"
    /\ Len(outs) >= 2
    /\ last.key \in watch
    /\ last.key < deqMax

(***************************************************************************)
(* C4  Conservation: every element handed over and not handed back is in   *)
(* exactly one occupied slot, and nothing else is in an occupied slot; the *)
(* elements popped since the last insertion, each once, together with the  *)
(* elements still held are the elements held after that insertion.         *)
(***************************************************************************)
\* What the client handed over with the element in a slot.
HandedOver(elem) == IF queue = NoQueue THEN elem ELSE events[elem].data

Pool == IF queue = NoQueue THEN NodePool ELSE PayloadPool

ValidElem(elem) ==
    IF queue = NoQueue THEN elem \in NodePool
    ELSE elem \in DOMAIN events /\ events[elem].alloc

C4_Conservation ==
    /\ \A i \in Slots : ValidElem(heap.elems[i])
    /\ \A x \in Pool :
           Cardinality({i \in Slots : HandedOver(heap.elems[i]) = x})
               = IF x \in owned THEN 1 ELSE 0
    /\ {outs[i] : i \in 1 .. Len(outs)} \cup owned = loaded
    /\ Len(outs) + Cardinality(owned) = Cardinality(loaded)

\* Three nodes were popped and three are still in the heap.
C4_Witness ==
    /\ queue = NoQueue
    /\ Len(outs) = 3
    /\ heap.size = 3
    /\ Cardinality(loaded) = 6

(***************************************************************************)
(* C5  Size accounting: the size is 0 after creation and is always the     *)
(* number of inserts (enqueues) less the number of pops (dequeues) that    *)
(* returned an element, which is the number of elements handed over and    *)
(* not handed back; binary_heap_size and event_queue_size return it.       *)
(***************************************************************************)
SizeOps == {"binary_heap_size", "event_queue_size"}

C5_SizeAccounting ==
    /\ heap.size = Cardinality(owned)
    /\ last.op = "none" => heap.size = 0
    /\ last.op \in SizeOps => last.ret = Cardinality(owned)

\* event_queue_size returned 2 after three enqueues and a dequeue.
C5_Witness ==
    /\ last.op = "event_queue_size"
    /\ last.ret = 2
    /\ Len(outs) = 1
    /\ Cardinality(loaded) = 3

(***************************************************************************)
(* C6  Peek returns a minimum: what binary_heap_min returns on a heap of   *)
(* size >= 1 is an element of the heap that no element of the heap is      *)
(* LESS_THAN, and its value is the least value inserted and not popped.    *)
(***************************************************************************)
C6_PeekIsMinimum ==
    (last.op = "binary_heap_min" /\ heap.size >= 1) =>
        /\ last.ret \in owned
        /\ \E i \in Slots : heap.elems[i] = last.ret
        /\ \A i \in Slots :
               CallComparator(heap, Mem, heap.elems[i], last.ret) # LESS_THAN
        /\ last.key = Min({nodes[n] : n \in owned})

\* Nodes of values 3, 1, 2 are in the heap and the peek gave the node of value 1.
C6_Witness ==
    /\ last.op = "binary_heap_min"
    /\ owned = {1, 2, 3}
    /\ heap.elems[2] = 2
    /\ last.ret = 1

(***************************************************************************)
(* C7  binary_heap_pop_min on a heap of size >= 1 returns what             *)
(* binary_heap_min returns right before the call, takes that one element   *)
(* out and no other, and leaves a heap on which binary_heap_min returns a  *)
(* minimum of the remaining elements, or NULL when none remains.           *)
(***************************************************************************)
\* Number of occupied slots of h that hold x.
Count(h, x) == Cardinality({i \in 0 .. h.size - 1 : h.elems[i] = x})

C7_PopReturnsMin ==
    [][ (last'.op = "binary_heap_pop_min" /\ heap.size >= 1) =>
          /\ last'.ret = binary_heap_min(heap)
          /\ last.op = "binary_heap_min" => last'.ret = last.ret
          /\ heap'.size = heap.size - 1
          /\ \A x \in NodePool :
                 Count(heap', x) = Count(heap, x) - (IF x = last'.ret THEN 1 ELSE 0)
          /\ IF heap'.size = 0
             THEN binary_heap_min(heap') = NULL
             ELSE /\ Count(heap', binary_heap_min(heap')) = 1
                  /\ \A i \in 0 .. heap'.size - 1 :
                         CallComparator(heap', Mem, heap'.elems[i],
                                        binary_heap_min(heap')) # LESS_THAN
      ]_vars

\* A pop took a node of value 1 out of the heap of all nodes, right after a peek.
C7_Witness ==
    /\ last.op = "binary_heap_pop_min"
    /\ last.key = 1
    /\ heap.size = NumNodes - 1
    /\ KeyOf(heap.elems[0]) = 1

(***************************************************************************)
(* C8  Payload/time pairing: event_queue_peek_uint_time and                *)
(* event_queue_dequeue_uint_time return a payload the queue holds together *)
(* with the time value that payload was enqueued with.                     *)
(***************************************************************************)
UintQueryOps == {"event_queue_peek_uint_time", "event_queue_dequeue_uint_time"}

C8_Pairing ==
    [][ (last'.op \in UintQueryOps /\ fault' = "none") =>
          /\ last'.elem_out \in owned
          /\ last'.ret = sched[last'.elem_out]
      ]_vars

\* The second payload, enqueued with the least time, was dequeued first.
C8_Witness ==
    /\ last.op = "event_queue_dequeue_uint_time"
    /\ fault = "none"
    /\ last.elem_out = 2
    /\ last.ret = 1
    /\ Cardinality(owned) = 2

(***************************************************************************)
(* C9  Empty heap query: on a heap of size 0, binary_heap_min and          *)
(* binary_heap_pop_min return NULL and leave the heap (size, capacity,     *)
(* array) as it was; an element inserted next is the one the next pop      *)
(* returns, as on a new heap.                                              *)
(***************************************************************************)
HeapQueryOps == {"binary_heap_min", "binary_heap_pop_min"}

C9_EmptyHeapQuery ==
    [][ (heap.size = 0 /\ last'.op \in HeapQueryOps) =>
          /\ last'.ret = NULL
          /\ heap' = heap
          /\ \A n \in NodePool :
                 LET filled == binary_heap_insert(heap', Mem, n)
                 IN  /\ filled.size = 1
                     /\ binary_heap_pop_min(filled, Mem).ret = n
                     /\ binary_heap_pop_min(filled, Mem).heap.size = 0
      ]_vars

\* A pop on a heap that had been filled and emptied returned NULL.
C9_Witness ==
    /\ last.op = "binary_heap_pop_min"
    /\ last.ret = NULL
    /\ heap.size = 0
    /\ heap.elems[0] = NULL
    /\ Len(outs) >= 2

(***************************************************************************)
(* C10  Empty queue query: event_queue_peek, event_queue_peek_uint_time,   *)
(* event_queue_dequeue and event_queue_dequeue_uint_time, called on a      *)
(* queue of size 0, do not end the process and leave the queue unchanged.  *)
(***************************************************************************)
QueueQueryOps == {"event_queue_peek", "event_queue_peek_uint_time",
                  "event_queue_dequeue", "event_queue_dequeue_uint_time"}

C10_EmptyQueueQueryNonFatal ==
    [][ (heap.size = 0 /\ last'.op \in QueueQueryOps) =>
          /\ fault' = "none"
          /\ heap' = heap
          /\ events' = events
          /\ times' = times
      ]_vars

(***************************************************************************)
(* Notions the teardown properties are stated with.                        *)
(***************************************************************************)
TeardownOps == {"free_heap", "free_event_queue"}

\* The step is a teardown that ran to its end.
TeardownStep == last'.op \in TeardownOps /\ fault' = "none"

\* How many of the calls are fn applied to ptr.
Calls(calls, fn, ptr) ==
    Cardinality({i \in DOMAIN calls : calls[i].fn = fn /\ calls[i].ptr = ptr})

\* The pointers the calls apply fn to.
Targets(calls, fn) == {calls[i].ptr : i \in {j \in DOMAIN calls : calls[j].fn = fn}}

\* The addresses an element of the heap can have.
ElemPool == IF queue = NoQueue THEN NodePool ELSE DOMAIN events

\* The destructor that disposes of what the client handed over.
HandedOverDestructor == IF queue = NoQueue THEN "free_node" ELSE queue.free_data

(***************************************************************************)
(* C11  Teardown destroys exactly the remaining elements: free_heap, and   *)
(* free_event_queue through it, calls the element destructor once on every *)
(* element in an occupied slot and on no other element; what was handed    *)
(* back by an earlier pop is not destroyed.                                *)
(***************************************************************************)
C11_TeardownDestroysRemaining ==
    [][ TeardownStep =>
          /\ \A e \in ElemPool :
                 Calls(freed', heap.free_elem, e)
                     = IF \E i \in Slots : heap.elems[i] = e THEN 1 ELSE 0
          /\ \A x \in Pool :
                 Calls(freed', HandedOverDestructor, x) = IF x \in owned THEN 1 ELSE 0
          /\ \A i \in 1 .. Len(outs) :
                 Calls(freed', HandedOverDestructor, outs[i]) = 0
      ]_vars

\* A queue was freed while it held the second and the third event allocated;
\* the first had been dequeued.
C11_Witness ==
    /\ last.op = "free_event_queue"
    /\ fault = "none"
    /\ Targets(freed, "event_free") = {2, 3}
    /\ Targets(freed, "free_data_elem") = {2, 3}

(***************************************************************************)
(* C12  Ownership on dequeue, no double release.  In every state the       *)
(* allocated event wrappers are those in the queue and the allocated time  *)
(* wrappers are theirs; no release is of a released block and no read is   *)
(* of one.  event_queue_dequeue frees the popped event wrapper and nothing *)
(* else, and hands payload and time to the caller;                         *)
(* event_queue_dequeue_uint_time frees that wrapper and its time wrapper,  *)
(* once each, and hands the payload to the caller; a peek frees nothing;   *)
(* free_event_queue destroys the payload, the time and the wrapper of      *)
(* every event still queued once each, and nothing else of these kinds.    *)
(***************************************************************************)
QueuedEvents == {heap.elems[i] : i \in Slots}

QueuedTimes == {events[e].time : e \in QueuedEvents}

\* Exactly the queued wrappers are allocated.
AllocatedAreQueued ==
    /\ \A a \in DOMAIN events : events[a].alloc <=> a \in QueuedEvents
    /\ \A a \in DOMAIN times : times[a].alloc <=> a \in QueuedTimes

\* How many of the calls are fn applied to the object ptr of the kind.
CallsOn(calls, fn, kind, ptr) ==
    Cardinality({i \in DOMAIN calls :
                    calls[i].fn = fn /\ calls[i].kind = kind /\ calls[i].ptr = ptr})

PeekOps == {"event_queue_peek", "event_queue_peek_uint_time"}

C12_OwnershipTransfer ==
    [][ queue # NoQueue =>
          /\ AllocatedAreQueued'
          /\ fault' \notin {"double_free", "use_after_free"}
          /\ (last'.op \in PeekOps /\ fault' = "none") => freed' = <<>>
          /\ DequeueStep =>
                 LET e == binary_heap_min(heap)
                     t == events[e].time
                     d == events[e].data
                 IN  /\ events[e].alloc /\ times[t].alloc
                     /\ last'.elem_out = d
                     /\ d \in owned /\ d \notin owned'
                     /\ last'.op = "event_queue_dequeue" =>
                            /\ freed' = <<FreeCall("free", "event", e, NULL)>>
                            /\ last'.time_out = t
                            /\ event_queue_dequeue(heap, Mem).mem.times = times
                     /\ last'.op = "event_queue_dequeue_uint_time" =>
                            freed' = <<FreeCall("free", "event", e, NULL),
                                       FreeCall("free", "time", t, NULL)>>
          /\ TeardownStep =>
                 /\ Len(freed') = 4 * heap.size + 2
                 /\ \A e \in DOMAIN events :
                        LET n == IF e \in QueuedEvents THEN 1 ELSE 0
                        IN  /\ CallsOn(freed', "free", "event", e) = n
                            /\ e \in QueuedEvents =>
                                   /\ events[e].alloc /\ times[events[e].time].alloc
                                   /\ CallsOn(freed', queue.free_data, "data",
                                              events[e].data) = 1
                                   /\ CallsOn(freed', queue.free_time, "time",
                                              events[e].time) = 1
      ]_vars

\* A queue was freed with one event left, after the other two events had
\* been dequeued, one with each of the two dequeue functions.
C12_Witness ==
    /\ last.op = "free_event_queue"
    /\ fault = "none"
    /\ Targets(freed, "event_free") = {3}
    /\ Targets(freed, "free_uint_time") = {3}

(***************************************************************************)
(* C13  Peek has no effect: a step of binary_heap_min, event_queue_peek,   *)
(* event_queue_peek_uint_time or event_queue_peek_double_time that returns *)
(* leaves size, capacity, the element array and every event and time       *)
(* wrapper as they were; the same peek made again in the state it leaves   *)
(* gives the same result; and a pop or dequeue that directly follows a     *)
(* peek returns the element the peek returned.                             *)
(***************************************************************************)
AllPeekOps == {"binary_heap_min", "event_queue_peek", "event_queue_peek_uint_time",
               "event_queue_peek_double_time"}

AllDequeueOps == {"binary_heap_pop_min", "event_queue_dequeue",
                  "event_queue_dequeue_uint_time", "event_queue_dequeue_double_time"}

\* The step is a peek that returned.
PeekStep == last'.op \in AllPeekOps /\ fault' = "none"

\* What the peek of the last call returns when it is made in this state.
PeekAgain ==
    CASE last.op = "binary_heap_min" ->
            Call(last.op, binary_heap_min(heap), NULL, NULL,
                 read_node(binary_heap_min(heap)))
      [] last.op = "event_queue_peek" ->
            LET r == event_queue_peek(heap, Mem) IN
            Call(last.op, 0, r.elem_out, r.time_out, times[r.time_out].time)
      [] last.op = "event_queue_peek_uint_time" ->
            LET r == event_queue_peek_uint_time(heap, Mem) IN
            Call(last.op, r.ret, r.elem_out, NULL, r.ret)
      [] last.op = "event_queue_peek_double_time" ->
            LET r == event_queue_peek_double_time(heap, Mem) IN
            Call(last.op, r.ret, r.elem_out, NULL, r.ret)

C13_PeekHasNoEffect ==
    [][ /\ PeekStep =>
              /\ heap' = heap
              /\ events' = events
              /\ times' = times
              /\ nodes' = nodes
              /\ PeekAgain' = last'
        /\ ( /\ last.op \in AllPeekOps
             /\ heap.size >= 1
             /\ last'.op \in AllDequeueOps
             /\ fault' = "none" ) =>
              IF last.op = "binary_heap_min"
              THEN last'.ret = last.ret
              ELSE last'.elem_out = last.elem_out
      ]_vars

\* A peek at a queue of double times that holds several events and that has
\* given events out before returns one of the events it holds.
C13_Witness ==
    /\ last.op = "event_queue_peek_double_time"
    /\ fault = "none"
    /\ heap.size >= 2
    /\ last.elem_out \in owned
    /\ loaded # owned

(***************************************************************************)
(* C14  Context plumbing: in an event queue, every call of event_comparator *)
(* made by insert and pop_min and every call of event_free made by         *)
(* free_heap receives the owning queue as its context argument, so that    *)
(* the call applies the queue's callbacks and comes back.                  *)
(***************************************************************************)
C14_ContextPlumbing ==
    [][ /\ \A context \in got' : context = QUEUE
        /\ got' # {} => fault' # "wild_dereference"
      ]_vars

(***************************************************************************)
(* C15  Allocation failure is fatal, never silent: a call in which an       *)
(* allocation fails is halted by an assertion, and nothing is stored in,   *)
(* written through or read from the null pointer the allocation returned.  *)
(***************************************************************************)
C15_AllocationFailureHalts ==
    [][oom' => fault' = "assertion_failed"]_vars

(***************************************************************************)
(* C16  A heap's comparator and destructor are never null:                 *)
(* create_empty_heap with a null comparator or a null destructor is        *)
(* stopped by its assertion and returns no heap, a heap that exists has    *)
(* neither of the two null, and no step changes either of them.            *)
(***************************************************************************)
CallbacksBound ==
    /\ last.op = "create_empty_heap" =>
            fault = "assertion_failed" /\ heap = NoHeap
    /\ heap # NoHeap =>
            heap.comparator # NULL_FN /\ heap.free_elem # NULL_FN

C16_CallbacksNeverNull ==
    /\ []CallbacksBound
    /\ [][ /\ heap'.comparator = heap.comparator
            /\ heap'.free_elem = heap.free_elem ]_vars

\* create_empty_heap was called with a null callback.
C16_Witness ==
    /\ last.op = "create_empty_heap"
    /\ fault = "assertion_failed"
    /\ heap = NoHeap

(***************************************************************************)
(* C17  Unconditional termination: whatever the comparisons give, the      *)
(* sift-up loop of insert and the sift-down loop of pop_min are left, and  *)
(* each makes at most floor(log2(n)) swaps, n >= 1 being the size when the *)
(* loop starts.                                                            *)
(***************************************************************************)
RECURSIVE FloorLog2(_)
FloorLog2(n) == IF n <= 1 THEN 0 ELSE 1 + FloorLog2(n \div 2)

C17_Termination ==
    /\ [](loop.swaps <= FloorLog2(loop.n))
    /\ <>(~loop.running)

\* A loop has been left after as many swaps as the bound allows, more than one.
C17_Witness ==
    /\ ~loop.running
    /\ loop.fn = "binary_heap_pop_min"
    /\ loop.swaps = FloorLog2(loop.n)
    /\ loop.swaps >= 2

(***************************************************************************)
(* C18  Double-time round trip: event_queue_dequeue_double_time returns    *)
(* the time its event was enqueued with by                                 *)
(* event_queue_enqueue_double_time, integral or not, which is also what    *)
(* event_queue_peek_double_time returns for that event.                    *)
(***************************************************************************)
C18_DoubleRoundTrip ==
    [][ (last'.op = "event_queue_dequeue_double_time" /\ fault' = "none") =>
          /\ last'.ret = sched[last'.elem_out]
          /\ last'.ret = event_queue_peek_double_time(heap, Mem).ret
      ]_vars

(***************************************************************************)
(* C19  Shape invariant: in every reachable state the slots 0 .. size-1    *)
(* hold, each a different one, exactly the elements that were inserted and *)
(* not yet popped; an insert fills the slot at index size and a pop_min    *)
(* vacates the slot at index size - 1, and neither touches a slot beyond.  *)
(***************************************************************************)
InsertOps == {"binary_heap_insert", "event_queue_enqueue_uint_time",
              "event_queue_enqueue_double_time"}

Shape ==
    (fault = "none" /\ heap # NoHeap) =>
        /\ \A i \in Slots : ValidElem(heap.elems[i])
        /\ \A i \in Slots : \A j \in Slots : i # j => heap.elems[i] # heap.elems[j]
        /\ {HandedOver(heap.elems[i]) : i \in Slots} = owned

\* The slots above index are as they were.
SlotsAboveKept(index) ==
    \A i \in DOMAIN heap.elems : i > index => heap'.elems[i] = heap.elems[i]

\* What a step that inserts or pops does to the slots.
ShapeStep ==
    /\ (last'.op \in InsertOps /\ fault' = "none") =>
            /\ heap'.size = heap.size + 1
            /\ heap.elems[heap.size] \in {UNINIT, NULL}
            /\ heap'.elems[heap.size] \notin {UNINIT, NULL}
            /\ SlotsAboveKept(heap.size)
    /\ (last'.op \in AllDequeueOps /\ fault' = "none" /\ heap.size >= 1) =>
            /\ heap'.size = heap.size - 1
            /\ heap.elems[heap.size - 1] \notin {UNINIT, NULL}
            /\ heap'.elems[heap.size - 1] = NULL
            /\ SlotsAboveKept(heap.size - 1)

C19_ShapeInvariant == []Shape /\ [][ShapeStep]_vars

\* Pops have vacated the two last slots in use of a heap that still holds
\* several elements.
C19_Witness ==
    /\ last.op \in AllDequeueOps
    /\ fault = "none"
    /\ heap.size >= 2
    /\ heap.elems[heap.size] = NULL
    /\ heap.elems[heap.size + 1] = NULL

(***************************************************************************)
(* C20  Sift-up is strict: an insert leaves the new element at an index j  *)
(* of the path from the slot it was stored in to the root; every parent it *)
(* went past moved one step down that path and has a key strictly greater  *)
(* than the new element's; the parent above j, if any, has a key that is   *)
(* not greater; every other element keeps its index; and the root stays    *)
(* when the new element's key equals the root's.                           *)
(***************************************************************************)
\* The indices from index up to the root.
RECURSIVE RootPath(_)
RootPath(index) ==
    IF index = 0 THEN {0}
    ELSE {index} \cup RootPath(binary_heap_get_parent_index(index))

\* The new element e is at index j after the step.
SiftedUpTo(e, j) ==
    /\ e \notin QueuedEvents
    /\ heap'.elems[j] = e
    /\ \A p \in RootPath(heap.size) :
           IF p > j
           THEN /\ heap'.elems[p] = heap.elems[binary_heap_get_parent_index(p)]
                /\ KeyOf(e)' < KeyOf(heap.elems[binary_heap_get_parent_index(p)])
           ELSE p < j => heap'.elems[p] = heap.elems[p]
    /\ j # 0 => KeyOf(e)' >= KeyOf(heap.elems[binary_heap_get_parent_index(j)])
    /\ \A i \in Slots \ RootPath(heap.size) : heap'.elems[i] = heap.elems[i]
    /\ (heap.size >= 1 /\ KeyOf(e)' = KeyOf(heap.elems[0])) =>
           /\ heap'.elems[0] = heap.elems[0]
           /\ binary_heap_min(heap') = binary_heap_min(heap)

C20_SiftUpStrict ==
    [][ (last'.op \in InsertOps /\ fault' = "none") =>
          \E e \in ElemPool : \E j \in RootPath(heap.size) : SiftedUpTo(e, j)
      ]_vars

\* An insert into a heap of three or more elements left, in the slot it
\* filled, an element whose key equals the root's.
C20_Witness ==
    /\ last.op = "binary_heap_insert"
    /\ fault = "none"
    /\ heap.size >= 4
    /\ KeyOf(heap.elems[heap.size - 1]) = KeyOf(heap.elems[0])

(***************************************************************************)
(* C21  Sift-down step rule: an iteration of the sift-down loop compares   *)
(* the element with the children that are present and with no other; it    *)
(* swaps only with a present child the element is GREATER_THAN; with both  *)
(* children present and the element GREATER_THAN both, it swaps with the   *)
(* right child if the left one is GREATER_THAN the right one and with the  *)
(* left child otherwise; with the element GREATER_THAN no present child    *)
(* the loop is left without a swap.                                        *)
(***************************************************************************)
SiftDownRule ==
    LET left_index  == 2 * loop.index + 1
        right_index == 2 * loop.index + 2
        c           == loop'.cmp
        swapped     == loop'.swaps = loop.swaps + 1
    IN  /\ c.left = NOT_COMPARED <=> left_index >= heap.size
        /\ c.right = NOT_COMPARED <=> right_index >= heap.size
        /\ swapped =>
               /\ loop'.index \in {left_index, right_index}
               /\ loop'.index < heap.size
               /\ (IF loop'.index = left_index THEN c.left ELSE c.right) = GREATER_THAN
               /\ heap'.elems = SwapElems(heap.elems, loop.index, loop'.index)
               /\ loop'.running
        /\ (c.left = GREATER_THAN /\ c.right = GREATER_THAN) =>
               /\ c.child \in Outcomes
               /\ swapped
               /\ loop'.index = IF c.child = GREATER_THAN THEN right_index ELSE left_index
        /\ (c.left = GREATER_THAN /\ c.right # GREATER_THAN) =>
               swapped /\ loop'.index = left_index
        /\ (c.left # GREATER_THAN /\ c.right = GREATER_THAN) =>
               swapped /\ loop'.index = right_index
        /\ (c.left # GREATER_THAN /\ c.right # GREATER_THAN) =>
               /\ ~swapped
               /\ ~loop'.running
               /\ heap' = heap
               /\ loop'.index = loop.index

C21_SiftDownStepRule ==
    [][(loop.fn = "binary_heap_pop_min" /\ loop.running) => SiftDownRule]_vars

\* After an earlier swap, an iteration found the element GREATER_THAN both
\* children, the children EQUAL_TO each other, and went left.
C21_Witness ==
    /\ loop.fn = "binary_heap_pop_min"
    /\ loop.swaps >= 2
    /\ loop.cmp.left = GREATER_THAN
    /\ loop.cmp.right = GREATER_THAN
    /\ loop.cmp.child = EQUAL_TO
    /\ loop.index % 2 = 1

(***************************************************************************)
(* C22  Capacity invariant: size <= capacity and capacity is 16 doubled    *)
(* some number of times, in every state of a heap in use; capacity changes *)
(* only in a binary_heap_insert entered with size = capacity, which        *)
(* doubles it; every such insert that returns does double it; and min,     *)
(* pop_min and size leave it alone.                                        *)
(***************************************************************************)
RECURSIVE IsDoubled(_)
IsDoubled(capacity) ==
    \/ capacity = DEFAULT_ARR_CAPACITY
    \/ /\ capacity > DEFAULT_ARR_CAPACITY
       /\ capacity % 2 = 0
       /\ IsDoubled(capacity \div 2)

CapacityBounds ==
    heap # NoHeap =>
        /\ heap.size <= heap.capacity
        /\ IsDoubled(heap.capacity)
        /\ DOMAIN heap.elems = 0 .. heap.capacity - 1

CapacityStep ==
    (fault' = "none" /\ last'.op \notin TeardownOps) =>
        /\ heap'.capacity # heap.capacity =>
               /\ last'.op = "binary_heap_insert"
               /\ heap.size = heap.capacity
               /\ heap'.capacity = 2 * heap.capacity
        /\ (last'.op = "binary_heap_insert" /\ heap.size = heap.capacity) =>
               heap'.capacity = 2 * heap.capacity
        /\ last'.op \in {"binary_heap_min", "binary_heap_pop_min", "binary_heap_size"} =>
               heap'.capacity = heap.capacity

C22_CapacityInvariant == []CapacityBounds /\ [][CapacityStep]_vars

\* The insert of one element more than the array had slots for has
\* returned, and the array has twice the slots.
C22_Witness ==
    /\ last.op = "binary_heap_insert"
    /\ fault = "none"
    /\ heap.capacity = 2 * DEFAULT_ARR_CAPACITY
    /\ heap.size = DEFAULT_ARR_CAPACITY + 1

(***************************************************************************)
(* C23  Absent means empty: binary_heap_min and binary_heap_pop_min return *)
(* NULL if and only if size = 0, and a binary_heap_pop_min on a heap of    *)
(* size >= 1 lowers size by one, whatever handles were inserted, the null  *)
(* handle included.                                                        *)
(***************************************************************************)
C23_AbsentMeansEmpty ==
    [][ /\ (last'.op \in HeapQueryOps /\ fault' = "none") =>
              (last'.ret = NULL <=> heap.size = 0)
        /\ (last'.op = "binary_heap_pop_min" /\ fault' = "none" /\ heap.size >= 1) =>
              heap'.size = heap.size - 1
      ]_vars

(***************************************************************************)
(* C24  Monotone simulated time under interleaving: as long as every       *)
(* enqueue has used a time that is not less than the time of the event     *)
(* dequeued last before it, every dequeue returns an event whose time is   *)
(* not less than that of the event dequeued before it, and not greater     *)
(* than the time of any event that remains in the queue.                   *)
(***************************************************************************)
QueueDequeueOps == {"event_queue_dequeue", "event_queue_dequeue_uint_time",
                    "event_queue_dequeue_double_time"}

C24_MonotoneTime ==
    [][ (last'.op \in QueueDequeueOps /\ fault' = "none" /\ driver.obeyed) =>
          /\ sched[last'.elem_out] >= driver.time
          /\ \A x \in owned' : sched[last'.elem_out] <= sched[x]
      ]_vars

\* Enqueues and dequeues were interleaved, every enqueue at or after the
\* time dequeued last; two different times have been dequeued and events
\* remain.
C24_Witness ==
    /\ last.op \in QueueDequeueOps
    /\ fault = "none"
    /\ driver.obeyed
    /\ driver.time = deqMax
    /\ Cardinality(watch) >= 2
    /\ Len(outs) = 1
    /\ heap.size >= 1

(***************************************************************************)
(* C25  No FIFO guarantee among equal times: events with EQUAL_TO times    *)
(* leave the queue in an order that is not the one they were enqueued in.  *)
(* When events of one time are enqueued and then dequeued, the first one   *)
(* enqueued leaves first and the others leave last enqueued first.         *)
(***************************************************************************)
\* Every event dequeued since the last enqueue, and every event that
\* remains, has one and the same time.
OneTime ==
    /\ Cardinality(watch) = 1
    /\ \A x \in owned : sched[x] \in watch

C25_NoFifoAmongEqualTimes ==
    (fault = "none" /\ Len(outs) >= 1 /\ OneTime) =>
        /\ outs[1] = 1
        /\ \A i \in 2 .. Len(outs) : outs[i] = Cardinality(loaded) + 2 - i

\* Three events of one time have left the queue, the third one enqueued
\* before the second.
C25_Witness ==
    /\ fault = "none"
    /\ last.op = "event_queue_dequeue_uint_time"
    /\ Len(outs) = 3
    /\ Cardinality(watch) = 1
    /\ outs[2] > outs[3]

(***************************************************************************)
(* C26  Events are ordered solely by time: event_comparator(e1, e2) is     *)
(* time_comparator(e1.time, e2.time) whatever the payloads are, and an     *)
(* enqueue or a dequeue made on a queue that differs from this one in its  *)
(* payloads only leaves the same heap array and the same size, and a       *)
(* dequeue hands out the same time and the payload of the same event.      *)
(***************************************************************************)
\* The payloads a second run may have given the events in the queue.
PayloadChoices == [QueuedEvents -> PayloadPool]

\* The memory of the second run: as this one, the payloads apart.
OtherPayloads(f) ==
    Memory(nodes,
           [e \in DOMAIN events |->
               IF e \in QueuedEvents THEN [events[e] EXCEPT !.data = f[e]]
               ELSE events[e]],
           times, queue, QUEUE, {})

\* The time wrappers an enqueue may bring.
NewTimes ==
    IF queue.time_comparator = "uint_time_comparator" THEN 1 .. NumTimes
    ELSE DoubleTimes

\* The heap after event_queue_enqueue with a time wrapper of time_val.
EnqueueWithTime(mem, elem, time_val) ==
    LET t == create_uint_time(mem, time_val) IN
    event_queue_enqueue(heap, t.mem, elem, t.ret).heap

ComparesByTimeOnly ==
    \A a, b \in QueuedEvents :
        LET by_time == CallTimeComparator(Mem, queue, events[a].time,
                                          events[b].time, NULL)
        IN  /\ event_comparator(Mem, a, b, QUEUE) = by_time
            /\ \A f \in PayloadChoices :
                   event_comparator(OtherPayloads(f), a, b, QUEUE) = by_time

DequeuesAlike ==
    heap.size >= 1 =>
        LET here == event_queue_dequeue(heap, Mem) IN
        /\ here.elem_out = events[heap.elems[0]].data
        /\ \A f \in PayloadChoices :
               LET there == event_queue_dequeue(heap, OtherPayloads(f)) IN
               /\ there.fault = here.fault
               /\ there.heap = here.heap
               /\ there.time_out = here.time_out
               /\ there.elem_out = f[heap.elems[0]]

EnqueuesAlike ==
    heap.size < MaxEvents =>
        \A time_val \in NewTimes :
            LET here == EnqueueWithTime(Mem, create_data_elem, time_val) IN
            \A f \in PayloadChoices : \A elem \in PayloadPool :
                EnqueueWithTime(OtherPayloads(f), elem, time_val) = here

C26_OrderedSolelyByTime ==
    (queue # NoQueue /\ Live) =>
        ComparesByTimeOnly /\ DequeuesAlike /\ EnqueuesAlike

\* Three events, two of them of one time, are in the queue: the second run
\* may hold their payloads in any order.
C26_Witness ==
    /\ queue # NoQueue
    /\ Live
    /\ heap.size = 3
    /\ \E a, b \in QueuedEvents :
           /\ a # b
           /\ event_comparator(Mem, a, b, QUEUE) = EQUAL_TO
           /\ events[a].data > events[b].data
    /\ \E a, b \in QueuedEvents : event_comparator(Mem, a, b, QUEUE) = LESS_THAN

(***************************************************************************)
(* C27  Queue teardown releases everything it owns: a free_event_queue     *)
(* that runs to its end has released, each exactly once, the wrapper, the  *)
(* payload and the time of every event that remained, the array of the     *)
(* heap, the heap structure and the event_queue structure.                 *)
(***************************************************************************)
\* How many of the calls release the object of that kind at ptr.
Releases(calls, kind, ptr) ==
    Cardinality({i \in DOMAIN calls :
                    /\ calls[i].kind = kind
                    /\ calls[i].ptr = ptr
                    /\ calls[i].fn # "event_free"})

C27_TeardownReleasesAll ==
    [][ (last'.op = "free_event_queue" /\ fault' = "none") =>
          /\ \A e \in QueuedEvents :
                 /\ Releases(freed', "event", e) = 1
                 /\ Releases(freed', "data", events[e].data) = 1
                 /\ Releases(freed', "time", events[e].time) = 1
          /\ Releases(freed', "elems", 1) = 1
          /\ Releases(freed', "heap", 1) = 1
          /\ Releases(freed', "queue", QUEUE) = 1
      ]_vars

(***************************************************************************)
(* C28  Event queue creation rejects null callbacks: a call of             *)
(* create_generic_event_queue with a null time comparator, payload         *)
(* destructor or time destructor fails an assertion, so that no queue      *)
(* exists whose callbacks include a null pointer, and no enqueue, dequeue  *)
(* or teardown calls through one.                                          *)
(***************************************************************************)
C28_CreationRejectsNullCallbacks ==
    /\ (queue # NoQueue /\ fault = "none") =>
           NULL_FN \notin {queue.time_comparator, queue.free_data, queue.free_time}
    /\ fault # "null_call"

(***************************************************************************)
(* C29  Index safety: in binary_heap_insert, binary_heap_pop_min and        *)
(* free_heap every slot read or written has an index in [0, capacity);     *)
(* every element given to the comparator or to the destructor is read from *)
(* a slot in [0, size) and is an element of the heap; the comparator is    *)
(* not called for a child that is absent, and the direction an iteration   *)
(* takes does not depend on the comparison result of an absent child.      *)
(***************************************************************************)
\* The slots below size hold the elements of the heap, and the index a
\* function works at is a slot of the array.
IndexInvariant ==
    /\ heap.size <= heap.capacity
    /\ DOMAIN heap.elems = 0 .. heap.capacity - 1
    /\ {heap.elems[i] : i \in Slots} = 1 .. heap.size
    /\ (loop.running /\ loop.fn \in {"binary_heap_bubble_last_element",
                                      "binary_heap_pop_min"}) =>
           loop.index \in Slots
    /\ (loop.running /\ loop.fn = "binary_heap_insert") => loop.index = heap.size
    /\ loop.fn = "free_heap" => loop.index \in 0 .. heap.size

\* The iteration made a swap.
Swapped == loop'.swaps = loop.swaps + 1

BubbleIndexStep ==
    LET parent_index == binary_heap_get_parent_index(loop.index) IN
    /\ loop'.cmp.parent # NOT_COMPARED =>
           /\ loop.index # 0
           /\ parent_index \in Slots
    /\ Swapped =>
           /\ loop'.cmp.parent # NOT_COMPARED
           /\ loop'.index = parent_index
           /\ heap'.elems = SwapElems(heap.elems, loop.index, parent_index)

SiftDownIndexStep ==
    LET left_index  == binary_heap_get_left_child_index(loop.index)
        right_index == binary_heap_get_right_child_index(loop.index)
        c           == loop'.cmp
        taken       == IF ~Swapped THEN "none"
                       ELSE IF loop'.index = left_index THEN "left" ELSE "right"
    IN  /\ c.left # NOT_COMPARED => left_index \in Slots
        /\ c.right # NOT_COMPARED => right_index \in Slots
        /\ c.child # NOT_COMPARED => left_index \in Slots /\ right_index \in Slots
        /\ Swapped =>
               /\ loop'.index \in {left_index, right_index}
               /\ loop'.index \in Slots
               /\ (IF loop'.index = left_index THEN c.left ELSE c.right) # NOT_COMPARED
        /\ \A unset \in Outcomes :
               SwapFlags(left_index < heap.size, right_index < heap.size,
                         IF c.left = NOT_COMPARED THEN unset ELSE c.left,
                         IF c.right = NOT_COMPARED THEN unset ELSE c.right,
                         IF c.child = NOT_COMPARED THEN unset ELSE c.child) = taken

StoreIndexStep ==
    fault' = "none" =>
        /\ heap.size < heap'.capacity
        /\ heap.size \in DOMAIN heap'.elems
        /\ heap'.size = heap.size + 1
        /\ heap'.elems[heap.size] = heap.size + 1
        /\ \A i \in Slots : heap'.elems[i] = heap.elems[i]

FreeIndexStep ==
    IF loop.index < heap.size
    THEN /\ loop.index \in DOMAIN heap.elems
         /\ heap.elems[loop.index] \in 1 .. heap.size
         /\ freed' = Append(freed, FreeCall(heap.free_elem, "node",
                                            heap.elems[loop.index], QUEUE))
    ELSE {freed'[i].kind : i \in DOMAIN freed' \ DOMAIN freed} = {"elems", "heap"}

IndexStep ==
    loop.running =>
        CASE loop.fn = "binary_heap_insert" -> StoreIndexStep
          [] loop.fn = "binary_heap_bubble_last_element" -> BubbleIndexStep
          [] loop.fn = "binary_heap_pop_min" -> SiftDownIndexStep
          [] loop.fn = "free_heap" -> FreeIndexStep

C29_IndexSafety == []IndexInvariant /\ [][IndexStep]_vars

\* The sift-down has swapped the element, a second time, with a left child
\* that has no sibling: the left child was compared and the right one not.
C29_Witness ==
    /\ loop.fn = "binary_heap_pop_min"
    /\ loop.swaps >= 2
    /\ loop.index = heap.size - 1
    /\ loop.index % 2 = 1
    /\ loop.cmp.left = GREATER_THAN
    /\ loop.cmp.right = NOT_COMPARED

(***************************************************************************)
(* C30  Parent index arithmetic: binary_heap_get_parent_index(i) is the    *)
(* floor of (i - 1) / 2 for every index i >= 0, which is -1 for the root   *)
(* index 0, and the parent of the child indices 2i + 1 and 2i + 2 is i.    *)
(* Stated of the index binary_heap_bubble_last_element applies the         *)
(* function to.                                                            *)
(***************************************************************************)
\* Division rounding down.
Floor(a, b) == a \div b

C30_ParentIndexArithmetic ==
    loop.fn = "binary_heap_bubble_last_element" =>
        /\ binary_heap_get_parent_index(loop.index) = Floor(loop.index - 1, 2)
        /\ loop.index = 0 => binary_heap_get_parent_index(loop.index) = -1
        /\ binary_heap_get_parent_index(
               binary_heap_get_left_child_index(loop.index)) = loop.index
        /\ binary_heap_get_parent_index(
               binary_heap_get_right_child_index(loop.index)) = loop.index

====
